---- MODULE Spec2Model ----
(***************************************************************************)
(* netdrift: intent reconciliation and group resolution.                   *)
(*                                                                         *)
(* Four subsystems share this module, each with its own specification:     *)
(*   Spec        the discovery/diff worker jobs and the intent API that    *)
(*               enqueues them (worker/config.py, api/intent.py)           *)
(*   SpecFull    the full-intent store (logic.py, api/intent/full.py)      *)
(*   SpecPartial the partial-intent store (logic.py, api/intent/partial.py)*)
(*   SpecGroup   intent-group resolution (logic.py, api/intent/group.py)   *)
(***************************************************************************)
EXTENDS Integers, Sequences, FiniteSets, TLC

VARIABLES
    intent,         \* collection "intent": id -> stored Intent document
    intent_diff,    \* collection "intent_diff": sequence of IntentDiff documents
    jobs,           \* arq queue: the jobs enqueued so far, with each job's locals
    webhook_log,    \* deliveries the Notifier attempted
    full_intent,    \* collection "full_intent": id -> FullIntentConfig document
    full_reqs,      \* full-intent requests received, with each handler's locals
    partial_intent, \* collection "partial_intent": id -> PartialIntentConfig document
    partial_resp,   \* partial-intent API: requests answered, and the last request and its answer
    intent_group,   \* collection "intent_group": id -> IntentGroup document
    group_resp      \* intent-group API: requests answered, and the last request and its answer

worker_vars  == <<intent, intent_diff, jobs, webhook_log>>
full_vars    == <<full_intent, full_reqs>>
partial_vars == <<partial_intent, partial_resp>>
group_vars   == <<intent_group, group_resp>>
vars == <<intent, intent_diff, jobs, webhook_log, full_intent, full_reqs,
          partial_intent, partial_resp, intent_group, group_resp>>

None == "None"

(***************************************************************************)
(* Bounds                                                                  *)
(***************************************************************************)
MaxIntents == 1
MaxJobs == 2
MaxFullReqs == 4
MaxPartialReqs == 3
MaxGroupReqs == 3
MaxGroupIntents == 2

(***************************************************************************)
(* Documents.  A document is a string of XML text.  The texts below are    *)
(* the inputs the model draws from; ET_XML gives the tree lxml parses each *)
(* one into (attributes in document order, whitespace-only text kept as a  *)
(* flag), or ParseError for text that is not well formed.                  *)
(***************************************************************************)
XmlA     == "<a x='1' y='2'><c/></a>"
XmlAws   == "<a y='2' x='1'> <c/> </a>"
XmlAyx   == "<a y='2' x='1'><c/></a>"
XmlB     == "<a><c/><d/></a>"
XmlBws   == "<a> <c/><d/> </a>"
XmlBad   == "<a><c></a>"
Texts    == {XmlA, XmlAws, XmlAyx, XmlB, XmlBws, XmlBad}

ParseError == [error |-> "XMLSyntaxError"]

ET_XML(text) ==
    CASE text = XmlA   -> [tag |-> "a", attrs |-> <<"x", "y">>, blank |-> FALSE, children |-> <<"c">>]
      [] text = XmlAws -> [tag |-> "a", attrs |-> <<"y", "x">>, blank |-> TRUE,  children |-> <<"c">>]
      [] text = XmlAyx -> [tag |-> "a", attrs |-> <<"y", "x">>, blank |-> FALSE, children |-> <<"c">>]
      [] text = XmlB   -> [tag |-> "a", attrs |-> <<>>,         blank |-> FALSE, children |-> <<"c", "d">>]
      [] text = XmlBws -> [tag |-> "a", attrs |-> <<>>,         blank |-> TRUE,  children |-> <<"c", "d">>]
      [] OTHER         -> ParseError

WellFormed(text) == ET_XML(text) # ParseError

\* Mutant: the attributes are written in the reverse of the order read.
SortAttrs_reversed(attrs) ==
    IF Len(attrs) = 2 THEN <<attrs[2], attrs[1]>> ELSE attrs

\* Attribute names sorted (the two-attribute inputs only need one swap).
SortAttrs(attrs) ==
    IF Len(attrs) = 2 /\ attrs[1] = "y" /\ attrs[2] = "x" THEN <<"x", "y">> ELSE attrs

\* etree.tostring(tree, strip_text=True, method="c14n2"): attributes in
\* sorted order, whitespace-only text dropped, serialized back to text.
C14N2(tree) ==
    LET canon == [tree EXCEPT !.attrs = SortAttrs(tree.attrs), !.blank = FALSE]
    IN  CHOOSE text \in Texts : ET_XML(text) = canon

\* Mutant: the parser recovers from malformed text and returns a tree.
validate_xml_recovering(config) ==
    IF ET_XML(config) = ParseError THEN ET_XML(XmlB) ELSE ET_XML(config)

\* logic.validate_xml: the parsed tree, or NetdriftXMLParserError.
validate_xml(config) == ET_XML(config)

\* Mutant: the tree is serialised as it was read, without c14n2.
format_xml_verbatim(config_xml) ==
    CHOOSE text \in Texts : ET_XML(text) = config_xml

\* logic.format_xml: tree -> canonical text.
format_xml(config_xml) == C14N2(config_xml)

\* hashlib.sha256(text).hexdigest(): distinct texts get distinct digests.
sha256(text) ==
    CASE text = XmlA   -> "9f1a"
      [] text = XmlAws -> "03c7"
      [] text = XmlAyx -> "7ab2"
      [] text = XmlB   -> "b2e4"
      [] text = XmlBws -> "5d90"
      [] OTHER         -> "e3b0"

(***************************************************************************)
(* Document store (crud/base.py).  A collection is the sequence of the     *)
(* documents ever inserted, indexed by id (ids are handed out in order and *)
(* never reused); a deleted document leaves Deleted in its place.  A field *)
(* a document does not carry holds None (0 for an id).                     *)
(***************************************************************************)
Deleted == [deleted |-> TRUE]

\* Whether a field holds no value (model_dump(exclude_none=True) drops it):
\* ids are 0 when absent, booleans always have a value.
IsNone(field, value) ==
    IF field \in {"id", "last_discovery_id"} THEN value = 0
    ELSE IF field = "netdrift_managed" THEN FALSE
    ELSE value = None

\* The ids of the documents a collection holds.
Ids(coll) == {i \in 1..Len(coll) : coll[i] # Deleted}

\* CRUDBase.create: insert_one under a fresh id.
CRUDBase_create(coll, obj_in) == Append(coll, [obj_in EXCEPT !.id = Len(coll) + 1])

\* CRUDBase.update, lines 184-191: every field of obj_in that is not None
\* is copied onto db_obj.
MergeUpdate(db_obj, obj_in) ==
    [f \in DOMAIN db_obj |->
        IF f \in DOMAIN obj_in /\ ~IsNone(f, obj_in[f]) THEN obj_in[f] ELSE db_obj[f]]

\* CRUDBase.update, lines 193-197: update_one with $set of the fields of
\* db_obj that are not None; a missing document is left missing.
CRUDBase_update(coll, id, db_obj, obj_in) ==
    LET merged == MergeUpdate(db_obj, obj_in)
    IN  IF id \notin Ids(coll) THEN coll
        ELSE [coll EXCEPT ![id] =
                [f \in DOMAIN coll[id] |->
                    IF f \in DOMAIN merged /\ ~IsNone(f, merged[f])
                    THEN merged[f] ELSE coll[id][f]]]

\* CRUDBase.delete: delete_one by id.
CRUDBase_delete(coll, id) == [coll EXCEPT ![id] = Deleted]

(***************************************************************************)
(* Intent API and worker jobs (api/intent.py, worker/config.py)            *)
(***************************************************************************)
Hostnames == {"r1"}

\* The Intent document as created by the API, before any discovery.
IntentCreate(hostname, type, filter, config, job_id) ==
    [id |-> 0, hostname |-> hostname, type |-> type, filter |-> filter,
     description |-> None, config |-> config, config_hash |-> None,
     last_discovery_id |-> job_id, last_discovery_status |-> "unknown",
     last_discovery_message |-> None]

\* IntentUpdate: every field optional.
IntentUpdate ==
    [description |-> None, config |-> None, config_hash |-> None,
     last_discovery_status |-> None, last_discovery_message |-> None]

\* IntentJob handed to the queue, with the locals of the job function.
\* pc: dispatched -> connecting -> fetched -> (persisted) ->
\*     succeeded | failed | crashed
IntentJob(fn, intent_obj, webhook) ==
    [fn |-> fn, intent |-> intent_obj, webhook |-> webhook, pc |-> "dispatched",
     reply |-> None, config_xml |-> None, no_diff |-> FALSE, ssh_error |-> FALSE,
     intent_diff |-> 0]

JobIds == 1..Len(jobs)
Ended == {"succeeded", "failed", "crashed"}

\* api/intent.py create_intent: the one-full-intent and filter checks, then
\* the insert and the enqueue of the discovery job.
api_create_intent(hostname, type, filter, config) ==
    LET job_id == Len(jobs) + 1
    IN
    /\ Len(intent) < MaxIntents
    /\ Len(jobs) < MaxJobs
    /\ IF type = "full"
       THEN ~ \E i \in Ids(intent) :
                intent[i].hostname = hostname /\ intent[i].type = "full"
       ELSE /\ filter # None
            /\ ~ \E i \in Ids(intent) :
                   intent[i].hostname = hostname /\ intent[i].filter = filter
            /\ WellFormed(filter)
    /\ intent' = CRUDBase_create(intent, IntentCreate(hostname, type, filter, config, job_id))
    /\ jobs' = Append(jobs, IntentJob("create_intent", intent'[Len(intent')], FALSE))
    /\ UNCHANGED <<intent_diff, webhook_log>>

\* api/intent.py update_intent: the stored document merged with the request.
api_update_intent(id, obj_in) ==
    /\ id \in Ids(intent)
    /\ intent' = CRUDBase_update(intent, id, intent[id], obj_in)
    /\ UNCHANGED <<intent_diff, jobs, webhook_log>>

\* Mutant: deleting an intent also deletes the IntentDiffs made for it.
api_delete_intent_cascade(id) ==
    /\ id \in Ids(intent)
    /\ intent' = CRUDBase_delete(intent, id)
    /\ intent_diff' = [d \in 1..Len(intent_diff) |->
                          IF intent_diff[d] # Deleted /\ intent_diff[d].intent_id = id
                          THEN Deleted ELSE intent_diff[d]]
    /\ UNCHANGED <<jobs, webhook_log>>

\* api/intent.py delete_intent.
api_delete_intent(id) ==
    /\ id \in Ids(intent)
    /\ intent' = CRUDBase_delete(intent, id)
    /\ UNCHANGED <<intent_diff, jobs, webhook_log>>

\* api/intent.py diff_intent: the job carries the intent as read now.
api_diff_intent(id, webhook) ==
    /\ id \in Ids(intent)
    /\ Len(jobs) < MaxJobs
    /\ jobs' = Append(jobs, IntentJob("intent_diff", intent[id], webhook))
    /\ UNCHANGED <<intent, intent_diff, webhook_log>>

\* api/intent.py resync_intent_for_device: last_discovery_id is overwritten
\* and the job carries the intent as read now.
api_resync_intent(id) ==
    LET job_id == Len(jobs) + 1
        existing_intent == [intent[id] EXCEPT !.last_discovery_id = job_id]
    IN
    /\ id \in Ids(intent)
    /\ Len(jobs) < MaxJobs
    /\ intent' = CRUDBase_update(intent, id, existing_intent, existing_intent)
    /\ jobs' = Append(jobs, IntentJob("create_intent", existing_intent, FALSE))
    /\ UNCHANGED <<intent_diff, webhook_log>>

\* etree.tostring(etree.XML(text), pretty_print=True).splitlines(): one line
\* for the opening tag with its attributes, one per child, one closing line.
PrettyLines(text) ==
    LET tree == ET_XML(text)
    IN  <<<<"open", tree.tag, tree.attrs>>>>
        \o [i \in 1..Len(tree.children) |-> <<"child", tree.children[i]>>]
        \o <<<<"close", tree.tag>>>>

Max(m, n) == IF m >= n THEN m ELSE n

RECURSIVE LCSLen(_, _)
LCSLen(a, b) ==
    IF a = <<>> \/ b = <<>> THEN 0
    ELSE IF Head(a) = Head(b) THEN 1 + LCSLen(Tail(a), Tail(b))
    ELSE Max(LCSLen(Tail(a), b), LCSLen(a, Tail(b)))

\* difflib.Differ().compare(a, b): every line of a and b in order, tagged
\* "  " when common, "- " when only in a, "+ " when only in b.
RECURSIVE Differ_compare(_, _)
Differ_compare(a, b) ==
    IF a = <<>> THEN [i \in 1..Len(b) |-> <<"+ ", b[i]>>]
    ELSE IF b = <<>> THEN [i \in 1..Len(a) |-> <<"- ", a[i]>>]
    ELSE IF Head(a) = Head(b)
         THEN <<<<"  ", Head(a)>>>> \o Differ_compare(Tail(a), Tail(b))
    ELSE IF LCSLen(Tail(a), b) >= LCSLen(a, Tail(b))
         THEN <<<<"- ", Head(a)>>>> \o Differ_compare(Tail(a), b)
    ELSE <<<<"+ ", Head(b)>>>> \o Differ_compare(a, Tail(b))

\* worker intent_diff, lines 125-136: the live configuration is the first
\* operand, the intent the second.
diff_str(config_xml, intent_config) ==
    Differ_compare(PrettyLines(config_xml), PrettyLines(intent_config))

\* IntentDiffCreate, worker intent_diff lines 143-145.
IntentDiffCreate(intent_obj, diff) ==
    [id |-> 0, intent_id |-> intent_obj.id, diff |-> diff, intent |-> intent_obj.config]

\* The worker takes a job off the queue.  intent_diff lines 86-88: a diff
\* needs a filter, or the job raises ValueError.
job_start(j) ==
    /\ jobs[j].pc = "dispatched"
    /\ jobs' = [jobs EXCEPT ![j].pc =
                  IF jobs[j].fn = "intent_diff" /\ jobs[j].intent.filter = None
                  THEN "crashed" ELSE "connecting"]
    /\ UNCHANGED <<intent, intent_diff, webhook_log>>

\* Mutant: a discovery that failed on a transport error is queued again.
create_intent_except_SSHError_retry(job) ==
    [job EXCEPT !.ssh_error = TRUE, !.pc = "dispatched"]

\* create_intent lines 62-67: the SSHError handler fills update_obj and
\* returns; the store is not written.
create_intent_except_SSHError(job) ==
    [job EXCEPT !.ssh_error = TRUE, !.pc = "failed"]

\* Mutant: config_xml is bound before the try block, so the handler falls
\* through to the comparison with an empty reply.
intent_diff_except_SSHError_bound(job) ==
    [job EXCEPT !.ssh_error = TRUE, !.config_xml = XmlB, !.pc = "fetched"]

\* intent_diff lines 117-122: the SSHError handler logs; no_diff is still
\* False, so line 122 reads config_xml, which was never bound: the job
\* raises UnboundLocalError.
intent_diff_except_SSHError(job) ==
    [job EXCEPT !.ssh_error = TRUE, !.pc = "crashed"]

except_SSHError(job) ==
    IF job.fn = "create_intent" THEN create_intent_except_SSHError(job)
    ELSE intent_diff_except_SSHError(job)

\* The device session, lines 38-60 and 91-111: manager.connect and
\* c.get_config, then the canonical form and hash of the reply; SSHError
\* from either call lands in the handler.  The session is released on
\* leaving the with block.
job_session(j, ok, reply) ==
    LET job == jobs[j]
        config_xml == C14N2(ET_XML(reply))
    IN
    /\ job.pc = "connecting"
    /\ jobs' = [jobs EXCEPT ![j] =
                  IF ok
                  THEN [job EXCEPT !.reply = reply,
                                   !.config_xml = config_xml,
                                   !.no_diff = (job.fn = "intent_diff"
                                                /\ sha256(config_xml) = job.intent.config_hash),
                                   !.pc = "fetched"]
                  ELSE except_SSHError(job)]
    /\ UNCHANGED <<intent, intent_diff, webhook_log>>

\* Mutant: the configuration and its digest are written, the status fields
\* are left to a later update.
create_intent_update_obj_no_status(config_xml) ==
    [IntentUpdate EXCEPT !.config_hash = sha256(config_xml),
                         !.config = config_xml]

\* Mutant: the digest is left out of the update.
create_intent_update_obj_no_hash(config_xml) ==
    [IntentUpdate EXCEPT !.config = config_xml,
                         !.last_discovery_status = "success",
                         !.last_discovery_message = "Intent resynced and updated config hash."]

\* create_intent lines 55-60: what a successful discovery writes.
create_intent_update_obj(config_xml) ==
    [IntentUpdate EXCEPT !.config_hash = sha256(config_xml),
                         !.config = config_xml,
                         !.last_discovery_status = "success",
                         !.last_discovery_message = "Intent resynced and updated config hash."]

\* create_intent lines 69-72: one update of the intent document, from the
\* job's own copy of the intent; CRUDBase.update raises on its final read
\* when the document is gone.
create_intent_store(j) ==
    /\ jobs[j].pc = "fetched"
    /\ jobs[j].fn = "create_intent"
    /\ intent' = CRUDBase_update(intent, jobs[j].intent.id, jobs[j].intent,
                                 create_intent_update_obj(jobs[j].config_xml))
    /\ jobs' = [jobs EXCEPT ![j].pc =
                  IF jobs[j].intent.id \in Ids(intent) THEN "succeeded" ELSE "crashed"]
    /\ UNCHANGED <<intent_diff, webhook_log>>

\* Mutant: the notification goes out from the comparison, before the
\* IntentDiff is stored.
intent_diff_compare_notify_first(j) ==
    LET job == jobs[j]
    IN
    /\ job.pc = "fetched"
    /\ job.fn = "intent_diff"
    /\ IF job.no_diff
       THEN /\ jobs' = [jobs EXCEPT ![j].pc = "succeeded"]
            /\ UNCHANGED <<intent_diff, webhook_log>>
       ELSE IF job.intent.config = None \/ ~WellFormed(job.intent.config)
       THEN /\ jobs' = [jobs EXCEPT ![j].pc = "crashed"]
            /\ UNCHANGED <<intent_diff, webhook_log>>
       ELSE /\ webhook_log' = IF job.webhook
                              THEN Append(webhook_log,
                                          [job |-> j, intent_diff |-> 0,
                                           status |-> 200, delivered |-> TRUE])
                              ELSE webhook_log
            /\ intent_diff' = CRUDBase_create(intent_diff,
                                 IntentDiffCreate(job.intent,
                                     diff_str(job.config_xml, job.intent.config)))
            /\ jobs' = [jobs EXCEPT ![j].intent_diff = Len(intent_diff'),
                                    ![j].pc = "succeeded"]
    /\ UNCHANGED intent

\* intent_diff lines 121-152: in sync, or the diff is computed and stored.
\* etree.XML(intent.config) raises when the intent has no (parsable) config.
intent_diff_compare(j) ==
    LET job == jobs[j]
    IN
    /\ job.pc = "fetched"
    /\ job.fn = "intent_diff"
    /\ IF job.no_diff
       THEN /\ jobs' = [jobs EXCEPT ![j].pc = "succeeded"]
            /\ UNCHANGED intent_diff
       ELSE IF job.intent.config = None \/ ~WellFormed(job.intent.config)
       THEN /\ jobs' = [jobs EXCEPT ![j].pc = "crashed"]
            /\ UNCHANGED intent_diff
       ELSE /\ intent_diff' = CRUDBase_create(intent_diff,
                                 IntentDiffCreate(job.intent,
                                     diff_str(job.config_xml, job.intent.config)))
            /\ jobs' = [jobs EXCEPT ![j].intent_diff = Len(intent_diff'),
                                    ![j].pc = IF job.webhook THEN "persisted" ELSE "succeeded"]
    /\ UNCHANGED <<intent, webhook_log>>

\* webhook.py line 66, assert resp.status == 200: the status with which
\* send_intent_diff_webhook returns instead of raising AssertionError.
status_ok(status) == status = 200

\* The response statuses of the webhook target.
ResponseStatuses == {200, 204, 500}

\* Mutant: a failed delivery removes the IntentDiff the job had stored.
intent_diff_webhook_rollback(j, status) ==
    /\ jobs[j].pc = "persisted"
    /\ webhook_log' = Append(webhook_log,
                             [job |-> j, intent_diff |-> jobs[j].intent_diff,
                              status |-> status, delivered |-> status_ok(status)])
    /\ jobs' = [jobs EXCEPT ![j].pc = IF status_ok(status) THEN "succeeded" ELSE "crashed"]
    /\ intent_diff' = IF status_ok(status) THEN intent_diff
                      ELSE CRUDBase_delete(intent_diff, jobs[j].intent_diff)
    /\ UNCHANGED intent

\* intent_diff lines 149-150 and webhook.py: one POST; anything but status
\* 200 fails the assertion and the job with it.
intent_diff_webhook(j, status) ==
    /\ jobs[j].pc = "persisted"
    /\ webhook_log' = Append(webhook_log,
                             [job |-> j, intent_diff |-> jobs[j].intent_diff,
                              status |-> status, delivered |-> status_ok(status)])
    /\ jobs' = [jobs EXCEPT ![j].pc = IF status_ok(status) THEN "succeeded" ELSE "crashed"]
    /\ UNCHANGED <<intent, intent_diff>>

\* Mutant: the cancelled job marks its intent as failed on the way out.
job_abort_compensating(j) ==
    /\ jobs[j].pc \notin Ended \cup {"aborted"}
    /\ jobs' = [jobs EXCEPT ![j].pc = "aborted"]
    /\ intent' = CRUDBase_update(intent, jobs[j].intent.id, jobs[j].intent,
                                 [IntentUpdate EXCEPT !.last_discovery_status = "failed"])
    /\ UNCHANGED <<intent_diff, webhook_log>>

\* api/jobs.py flush_jobs, arq Job.abort: the job is cancelled where it
\* stands.  Neither job function catches the cancellation or has a finally
\* clause, so the job stops without another statement of its own.
job_abort(j) ==
    /\ jobs[j].pc \notin Ended \cup {"aborted"}
    /\ jobs' = [jobs EXCEPT ![j].pc = "aborted"]
    /\ UNCHANGED <<intent, intent_diff, webhook_log>>

(***************************************************************************)
(* Specification of the worker subsystem                                   *)
(***************************************************************************)
Init ==
    /\ intent = <<>>
    /\ intent_diff = <<>>
    /\ jobs = <<>>
    /\ webhook_log = <<>>
    /\ full_intent = <<>>
    /\ full_reqs = <<>>
    /\ partial_intent = <<>>
    /\ partial_resp = [count |-> 0, last |-> [op |-> "none"]]
    /\ intent_group = <<>>
    /\ group_resp = [count |-> 0, last |-> [op |-> "none"]]

LiveTexts == {XmlA, XmlBws}
UpdateRequests ==
    {[IntentUpdate EXCEPT !.description = "edited"],
     [IntentUpdate EXCEPT !.description = "revised"],
     [IntentUpdate EXCEPT !.config = XmlB, !.config_hash = sha256(XmlB)]}

\* The worker executes the next statement group of job j.
JobRun(j) ==
    /\ j \in JobIds
    /\ \/ job_start(j)
       \/ \E ok \in BOOLEAN, reply \in LiveTexts : job_session(j, ok, reply)
       \/ create_intent_store(j)
       \/ intent_diff_compare(j)
       \/ \E status \in ResponseStatuses : intent_diff_webhook(j, status)
    /\ UNCHANGED <<full_vars, partial_vars, group_vars>>

Next ==
    \/ \E h \in Hostnames, c \in {None} :
          \/ api_create_intent(h, "full", None, c) /\ UNCHANGED <<full_vars, partial_vars, group_vars>>
          \/ \E f \in {None, XmlB, XmlBad} :
                api_create_intent(h, "partial", f, c) /\ UNCHANGED <<full_vars, partial_vars, group_vars>>
    \/ \E id \in 1..MaxIntents :
          \/ \E u \in UpdateRequests :
                api_update_intent(id, u) /\ UNCHANGED <<full_vars, partial_vars, group_vars>>
          \/ api_delete_intent(id) /\ UNCHANGED <<full_vars, partial_vars, group_vars>>
          \/ \E w \in BOOLEAN :
                api_diff_intent(id, w) /\ UNCHANGED <<full_vars, partial_vars, group_vars>>
          \/ api_resync_intent(id) /\ UNCHANGED <<full_vars, partial_vars, group_vars>>
    \/ \E j \in 1..MaxJobs :
          \/ JobRun(j)
          \/ /\ j \in JobIds
             /\ job_abort(j)
             /\ UNCHANGED <<full_vars, partial_vars, group_vars>>

Spec == Init /\ [][Next]_vars

\* The arq worker runs every queued job (WorkerSettings, functions) and a
\* started job function runs on to its return or to an exception.
SpecLive == Spec /\ \A j \in 1..MaxJobs : WF_vars(JobRun(j))

(***************************************************************************)
(* Claims about the worker jobs                                            *)
(***************************************************************************)
\* The step in which job j ends.
JobEnds(j) == jobs[j].pc \notin Ended /\ jobs'[j].pc \in Ended

\* C1: when the device session fails with a transport error in a discovery
\* or diff job, then as the job ends the stored intent has
\* last_discovery_status = failed and a non-empty last_discovery_message.
C1_TransportFailureRecorded ==
    [][\A j \in JobIds :
         (JobEnds(j) /\ jobs'[j].ssh_error /\ jobs[j].intent.id \in Ids(intent'))
         => /\ intent'[jobs[j].intent.id].last_discovery_status = "failed"
            /\ intent'[jobs[j].intent.id].last_discovery_message # None]_vars

\* C2: a job whose device session fails with a transport error stops in
\* the failing step: that step creates no IntentDiff and invokes no
\* Notifier, and the job takes no step afterwards.
C2_TransportFailureStopsJob ==
    [][\A j \in JobIds :
         /\ (~jobs[j].ssh_error /\ jobs'[j].ssh_error)
            => /\ jobs'[j].pc \in Ended
               /\ jobs'[j].intent_diff = 0
               /\ intent_diff' = intent_diff
               /\ webhook_log' = webhook_log
         /\ jobs[j].ssh_error => jobs'[j] = jobs[j]]_vars

\* Witness of C2: a diff job with a webhook target, for an intent that has
\* a stored hash, ended on a transport error.
C2_Witness ==
    \E j \in JobIds :
         /\ jobs[j].fn = "intent_diff"
         /\ jobs[j].ssh_error
         /\ jobs[j].pc \in Ended
         /\ jobs[j].webhook
         /\ jobs[j].intent.config_hash # None

\* The step in which diff job j, having fetched, compares and persists.
DiffJobCompares(j) ==
    /\ jobs[j].fn = "intent_diff"
    /\ jobs[j].pc = "fetched"
    /\ jobs'[j].pc # "fetched"
    /\ jobs[j].intent.id \in Ids(intent)

\* C3: a diff job whose fetched configuration hashes to a value different
\* from the intent's stored config_hash creates exactly one IntentDiff, for
\* this intent, whose body is the non-empty line diff of the live
\* configuration (first) against the intent configuration (second).
\* (Stated for an intent that has a stored configuration and hash.)
C3_DriftCreatesOneDiff ==
    [][\A j \in JobIds :
         (/\ DiffJobCompares(j)
          /\ intent[jobs[j].intent.id].config # None
          /\ intent[jobs[j].intent.id].config_hash # None
          /\ sha256(jobs[j].config_xml) # intent[jobs[j].intent.id].config_hash)
         => /\ Len(intent_diff') = Len(intent_diff) + 1
            /\ intent_diff'[Len(intent_diff')].intent_id = jobs[j].intent.id
            /\ intent_diff'[Len(intent_diff')].diff # <<>>
            /\ intent_diff'[Len(intent_diff')].diff
                 = diff_str(jobs[j].config_xml, intent[jobs[j].intent.id].config)]_vars

\* C4: a diff job whose fetched configuration hashes to exactly the intent's
\* stored config_hash creates no IntentDiff and leaves the intent unchanged.
C4_InSyncCreatesNoDiff ==
    [][\A j \in JobIds :
         (/\ DiffJobCompares(j)
          /\ sha256(jobs[j].config_xml) = intent[jobs[j].intent.id].config_hash)
         => /\ intent_diff' = intent_diff
            /\ intent' = intent]_vars

\* canonicalize(x): the canonical text of a well-formed document and its
\* hash, as logic.py computes them from a request.
canonicalize(x) ==
    [canonical |-> format_xml(validate_xml(x)),
     hash |-> sha256(format_xml(validate_xml(x)))]

FullHostnames == {"r1", "r2"}

\* Mutant: the lookup never finds a document.
get_by_hostname_blind(coll, hostname) == {}

\* CRUDFullIntent.get_by_hostname: find_one({"hostname": hostname}); the
\* set of matching ids, empty when there is none.
get_by_hostname(coll, hostname) ==
    {i \in Ids(coll) : coll[i].hostname = hostname}

\* FullIntentConfigCreate as logic.create_full_intent hands it to the store.
FullIntentConfigCreate(hostname, config, config_hash) ==
    [id |-> 0, hostname |-> hostname, netdrift_managed |-> FALSE,
     config |-> config, config_hash |-> config_hash]

\* A request as received: the handler's locals and, once answered, its result.
FullReq(op, hostname, config) ==
    [op |-> op, hostname |-> hostname, config |-> config, config_hash |-> None,
     netdrift_managed |-> FALSE, obj_id |-> 0,
     pc |-> "received", result |-> None, id |-> 0]

\* logic.create_full_intent lines 36-47: the existence check, then the
\* config is validated, canonicalised and hashed.  The insert is a later
\* store call (create_full_intent_insert).
create_full_intent_check(hostname, config, netdrift_managed) ==
    LET req == [FullReq("create", hostname, config)
                   EXCEPT !.netdrift_managed = netdrift_managed]
    IN
    /\ Len(full_reqs) < MaxFullReqs
    /\ full_reqs' = Append(full_reqs,
         IF get_by_hostname(full_intent, hostname) # {}
         THEN [req EXCEPT !.pc = "done", !.result = "FullIntentConfigAlreadyExistError"]
         ELSE IF validate_xml(config) = ParseError
         THEN [req EXCEPT !.pc = "done", !.result = "XMLParserError"]
         ELSE [req EXCEPT !.pc = "checked",
                          !.config = format_xml(validate_xml(config)),
                          !.config_hash = sha256(format_xml(validate_xml(config)))])
    /\ UNCHANGED full_intent

\* logic.create_full_intent lines 49-50: crud.full_intent.create.
create_full_intent_insert(r) ==
    /\ full_reqs[r].op = "create"
    /\ full_reqs[r].pc = "checked"
    /\ full_intent' = CRUDBase_create(full_intent,
                         [FullIntentConfigCreate(full_reqs[r].hostname, full_reqs[r].config,
                                                 full_reqs[r].config_hash)
                             EXCEPT !.netdrift_managed = full_reqs[r].netdrift_managed])
    /\ full_reqs' = [full_reqs EXCEPT ![r].pc = "done", ![r].result = "created",
                                      ![r].id = Len(full_intent')]

\* api/intent/full.py delete_full_intent: NotFound, or the document is
\* deleted and returned.
delete_full_intent(id) ==
    /\ Len(full_reqs) < MaxFullReqs
    /\ IF id \in Ids(full_intent)
       THEN /\ full_intent' = CRUDBase_delete(full_intent, id)
            /\ full_reqs' = Append(full_reqs,
                  [FullReq("delete", full_intent[id].hostname, full_intent[id].config)
                      EXCEPT !.pc = "done", !.result = "deleted", !.id = id])
       ELSE /\ UNCHANGED full_intent
            /\ full_reqs' = Append(full_reqs,
                  [FullReq("delete", None, None)
                      EXCEPT !.pc = "done", !.result = "FullIntentConfigNotFoundError", !.id = id])

\* FullIntentConfigUpdate: the body of an update request.
FullIntentConfigUpdate(id, hostname, netdrift_managed, config) ==
    [id |-> id, hostname |-> hostname, netdrift_managed |-> netdrift_managed,
     config |-> config, config_hash |-> None]

\* api/intent/full.py update_full_intent lines 78-82 and
\* logic.update_full_intent lines 245-262: the error raised, or "updated".
\* NetdriftFullIntentConfigUpdateError is raised without the message its
\* constructor requires, which is a TypeError.
update_full_intent_result(coll, intent_id, obj_in) ==
    IF intent_id \notin Ids(coll) THEN "FullIntentConfigNotFoundError"
    ELSE IF obj_in.hostname # None /\ obj_in.hostname # coll[intent_id].hostname
    THEN "IntentConfigHostnameLockError"
    ELSE IF obj_in.id # 0 /\ obj_in.id # intent_id THEN "TypeError"
    ELSE IF obj_in.netdrift_managed # coll[intent_id].netdrift_managed
    THEN "IntentConfigAPILockError"
    ELSE IF obj_in.config # None /\ validate_xml(obj_in.config) = ParseError
    THEN "XMLParserError"
    ELSE "updated"

\* logic.update_full_intent lines 256-265: the config, when given, is
\* replaced by its canonical form and hashed; then CRUDBase.update.
update_full_intent(intent_id, obj_in) ==
    LET result == update_full_intent_result(full_intent, intent_id, obj_in)
        with_config ==
            IF obj_in.config = None THEN obj_in
            ELSE [obj_in EXCEPT
                    !.config = format_xml(validate_xml(obj_in.config)),
                    !.config_hash = sha256(format_xml(validate_xml(obj_in.config)))]
    IN
    /\ Len(full_reqs) < MaxFullReqs
    /\ full_intent' = IF result = "updated"
                      THEN CRUDBase_update(full_intent, intent_id,
                                           full_intent[intent_id], with_config)
                      ELSE full_intent
    /\ full_reqs' = Append(full_reqs,
          [FullReq("update", obj_in.hostname, obj_in.config)
              EXCEPT !.netdrift_managed = obj_in.netdrift_managed,
                     !.obj_id = obj_in.id,
                     !.pc = "done", !.result = result, !.id = intent_id])

NextFull ==
    \/ \E h \in FullHostnames, c \in {XmlAws, XmlBad} :
          create_full_intent_check(h, c, FALSE) /\ UNCHANGED <<worker_vars, partial_vars, group_vars>>
    \/ \E r \in 1..MaxFullReqs :
          r \in 1..Len(full_reqs) /\ create_full_intent_insert(r)
          /\ UNCHANGED <<worker_vars, partial_vars, group_vars>>
    \/ \E id \in 1..MaxFullReqs :
          delete_full_intent(id) /\ UNCHANGED <<worker_vars, partial_vars, group_vars>>

SpecFull == Init /\ [][NextFull]_vars

\* The step in which a create request for hostname h is received.
FullCreateReceived(h) ==
    /\ Len(full_reqs') = Len(full_reqs) + 1
    /\ full_reqs'[Len(full_reqs')].op = "create"
    /\ full_reqs'[Len(full_reqs')].hostname = h

\* C5: a create for a hostname that has a stored full intent is answered
\* with AlreadyExist and stores nothing; a create (of a well-formed config)
\* for a hostname with no stored full intent, in particular after the
\* stored one was deleted, passes the check and its insert stores the
\* intent for that hostname.
C5_FullIntentAlreadyExists ==
    [][/\ \A h \in FullHostnames :
            FullCreateReceived(h) =>
               LET req == full_reqs'[Len(full_reqs')]
               IN  /\ (\E i \in Ids(full_intent) : full_intent[i].hostname = h)
                      => /\ req.result = "FullIntentConfigAlreadyExistError"
                         /\ req.pc = "done"
                         /\ full_intent' = full_intent
                   /\ (/\ ~ \E i \in Ids(full_intent) : full_intent[i].hostname = h
                       /\ WellFormed(req.config))
                      => req.pc = "checked"
       /\ \A r \in 1..Len(full_reqs) :
            (full_reqs[r].op = "create" /\ full_reqs[r].pc = "done")
            => full_reqs'[r] = full_reqs[r]
       /\ \A r \in 1..Len(full_reqs) :
            (full_reqs[r].pc = "checked" /\ full_reqs'[r].pc # "checked")
            => /\ full_reqs'[r].result = "created"
               /\ Len(full_intent') = Len(full_intent) + 1
               /\ full_reqs'[r].id = Len(full_intent')
               /\ full_intent'[Len(full_intent')].hostname = full_reqs[r].hostname]_vars

\* Witness of C5: a create was refused for r1, r1's intent was deleted, and
\* a create for r1 received after the delete stored an intent.
C5_Witness ==
    \E a, d, c \in 1..Len(full_reqs) :
         /\ a < d /\ d < c
         /\ full_reqs[a].op = "create" /\ full_reqs[a].hostname = "r1"
         /\ full_reqs[a].result = "FullIntentConfigAlreadyExistError"
         /\ full_reqs[d].op = "delete" /\ full_reqs[d].result = "deleted"
         /\ full_reqs[d].hostname = "r1"
         /\ full_reqs[c].op = "create" /\ full_reqs[c].hostname = "r1"
         /\ full_reqs[c].result = "created"
         /\ full_reqs[c].id \in Ids(full_intent)

\* C6: in every reachable state, under every interleaving of concurrent
\* create requests, at most one full intent is stored per hostname.
C6_OneFullIntentPerHostname ==
    \A i, k \in Ids(full_intent) :
        full_intent[i].hostname = full_intent[k].hostname => i = k

(***************************************************************************)
(* Partial intents (logic.py, crud/partial_intent.py,                      *)
(* api/intent/partial.py).  Each handler is one step.                      *)
(***************************************************************************)
PartialHostnames == {None, "r1"}

\* CRUDPartialIntent.get_all_by_config_hash: the query
\* {"hostname": hostname, "config_hash": config_hash}; a None hostname
\* matches exactly the documents stored without one.
get_all_by_config_hash(coll, config_hash, hostname) ==
    {i \in Ids(coll) : coll[i].hostname = hostname /\ coll[i].config_hash = config_hash}

\* Mutant: the filter check looks the filter hash up among the config hashes.
get_all_by_filter_hash_wrong_field(coll, filter_hash, hostname) ==
    {i \in Ids(coll) : coll[i].hostname = hostname /\ coll[i].config_hash = filter_hash}

\* CRUDPartialIntent.get_all_by_filter_hash: the query
\* {"hostname": hostname, "filter_hash": filter_hash}.
get_all_by_filter_hash(coll, filter_hash, hostname) ==
    {i \in Ids(coll) : coll[i].hostname = hostname /\ coll[i].filter_hash = filter_hash}

\* PartialIntentConfigCreate / PartialIntentConfigUpdate: the request body.
PartialIntentConfigBase(hostname, config, filter) ==
    [id |-> 0, hostname |-> hostname, netdrift_managed |-> FALSE,
     config |-> config, config_hash |-> None, filter |-> filter, filter_hash |-> None]

\* The answer to a partial-intent request.
PartialResponse(op, id, obj_in, result) ==
    [op |-> op, id |-> id, obj_in |-> obj_in, result |-> result]

\* logic.create_partial_intent: the error it raises, or "created".
create_partial_intent_result(coll, intent_in) ==
    IF validate_xml(intent_in.config) = ParseError THEN "XMLParserError"
    ELSE IF get_all_by_config_hash(coll,
                sha256(format_xml(validate_xml(intent_in.config))), intent_in.hostname) # {}
    THEN "PartialIntentConfigAlreadyExistError"
    ELSE IF validate_xml(intent_in.filter) = ParseError THEN "XMLParserError"
    ELSE IF get_all_by_filter_hash(coll,
                sha256(format_xml(validate_xml(intent_in.filter))), intent_in.hostname) # {}
    THEN "PartialIntentConfigFilterAlreadyExistError"
    ELSE "created"

\* logic.create_partial_intent lines 64-94: config is stored canonical with
\* its hash; the filter is stored as given, with the hash of its canonical
\* form.
create_partial_intent(intent_in) ==
    LET result == create_partial_intent_result(partial_intent, intent_in)
        obj == [intent_in EXCEPT
                  !.config = format_xml(validate_xml(intent_in.config)),
                  !.config_hash = sha256(format_xml(validate_xml(intent_in.config))),
                  !.filter_hash = sha256(format_xml(validate_xml(intent_in.filter)))]
    IN
    /\ partial_resp.count < MaxPartialReqs
    /\ partial_intent' = IF result = "created"
                         THEN CRUDBase_create(partial_intent, obj)
                         ELSE partial_intent
    /\ partial_resp' = [count |-> partial_resp.count + 1,
                        last |-> PartialResponse("create",
                                    IF result = "created" THEN Len(partial_intent') ELSE 0,
                                    intent_in, result)]

\* api/intent/partial.py update_partial_intent lines 73-77 and
\* logic.update_partial_intent lines 184-211: the error raised, or "updated".
update_partial_intent_result(coll, intent_id, obj_in) ==
    IF intent_id \notin Ids(coll) THEN "PartialIntentConfigNotFoundError"
    ELSE IF obj_in.hostname # None /\ obj_in.hostname # coll[intent_id].hostname
    THEN "IntentConfigHostnameLockError"
    ELSE IF obj_in.id # 0 /\ obj_in.id # intent_id THEN "TypeError"
    ELSE IF obj_in.netdrift_managed # coll[intent_id].netdrift_managed
    THEN "IntentConfigAPILockError"
    ELSE IF obj_in.config # None /\ validate_xml(obj_in.config) = ParseError
    THEN "XMLParserError"
    ELSE IF obj_in.filter # None /\ validate_xml(obj_in.filter) = ParseError
    THEN "XMLParserError"
    ELSE "updated"

\* logic.update_partial_intent lines 195-215: config and filter, when given,
\* are replaced by their canonical form and hashed; then CRUDBase.update.
update_partial_intent(intent_id, obj_in) ==
    LET result == update_partial_intent_result(partial_intent, intent_id, obj_in)
        with_config ==
            IF obj_in.config = None THEN obj_in
            ELSE [obj_in EXCEPT
                    !.config = format_xml(validate_xml(obj_in.config)),
                    !.config_hash = sha256(format_xml(validate_xml(obj_in.config)))]
        with_filter ==
            IF obj_in.filter = None THEN with_config
            ELSE [with_config EXCEPT
                    !.filter = format_xml(validate_xml(obj_in.filter)),
                    !.filter_hash = sha256(format_xml(validate_xml(obj_in.filter)))]
    IN
    /\ partial_resp.count < MaxPartialReqs
    /\ partial_intent' = IF result = "updated"
                         THEN CRUDBase_update(partial_intent, intent_id,
                                              partial_intent[intent_id], with_filter)
                         ELSE partial_intent
    /\ partial_resp' = [count |-> partial_resp.count + 1,
                        last |-> PartialResponse("update", intent_id, obj_in, result)]

\* api/intent/partial.py delete_partial_intent.
delete_partial_intent(intent_id) ==
    /\ partial_resp.count < MaxPartialReqs
    /\ partial_intent' = IF intent_id \in Ids(partial_intent)
                         THEN CRUDBase_delete(partial_intent, intent_id)
                         ELSE partial_intent
    /\ partial_resp' = [count |-> partial_resp.count + 1,
                        last |-> PartialResponse("delete", intent_id,
                                    PartialIntentConfigBase(None, None, None),
                                    IF intent_id \in Ids(partial_intent) THEN "deleted"
                                    ELSE "PartialIntentConfigNotFoundError")]

PartialCreateRequests ==
    {PartialIntentConfigBase(h, c, f) :
        h \in PartialHostnames, c \in {XmlAws, XmlAyx, XmlB, XmlBad},
        f \in {XmlA, XmlB, XmlBws, XmlBad}}

\* PartialIntentConfigUpdate inherits config_hash and filter_hash from its
\* base models (models/intent.py lines 14 and 50), so a request body may
\* carry them.
PartialUpdateRequests ==
    {PartialIntentConfigBase(h, c, f) :
        h \in PartialHostnames, c \in {None, XmlB, XmlBad}, f \in {None, XmlA}}
    \cup {[PartialIntentConfigBase(None, None, None) EXCEPT !.config_hash = "0bad"],
          [PartialIntentConfigBase(None, None, None) EXCEPT !.filter_hash = "0bad"]}

NextPartial ==
    \/ \E intent_in \in PartialCreateRequests :
          create_partial_intent(intent_in) /\ UNCHANGED <<worker_vars, full_vars, group_vars>>
    \/ \E id \in 1..MaxPartialReqs, obj_in \in PartialUpdateRequests :
          update_partial_intent(id, obj_in) /\ UNCHANGED <<worker_vars, full_vars, group_vars>>
    \/ \E id \in 1..MaxPartialReqs :
          delete_partial_intent(id) /\ UNCHANGED <<worker_vars, full_vars, group_vars>>

SpecPartial == Init /\ [][NextPartial]_vars

(***************************************************************************)
(* Claims about partial intents                                            *)
(***************************************************************************)
\* The hash of the canonical form of a text; None for malformed text.
CanonHash(text) ==
    IF WellFormed(text) THEN sha256(C14N2(ET_XML(text))) ELSE None

\* The step in which a create request is answered.
PartialCreateAnswered ==
    /\ partial_resp'.count = partial_resp.count + 1
    /\ partial_resp'.last.op = "create"

\* Stored partial intents with the hostname of the request (both equal or
\* both absent) and the same filter hash, resp. config hash.
SameHostFilter(req) ==
    {i \in Ids(partial_intent) :
        /\ partial_intent[i].hostname = req.hostname
        /\ partial_intent[i].filter_hash = CanonHash(req.filter)}
SameHostConfig(req) ==
    {i \in Ids(partial_intent) :
        /\ partial_intent[i].hostname = req.hostname
        /\ partial_intent[i].config_hash = CanonHash(req.config)}

\* C7 as stated: a create is rejected with the filter-already-exists error,
\* storing nothing, whenever a stored partial intent with the same hostname
\* has the same canonical filter hash; likewise with the
\* partial-intent-already-exists error for the same canonical config hash.
C7_DuplicateRejectedAsStated ==
    [][PartialCreateAnswered =>
         LET req == partial_resp'.last.obj_in
             result == partial_resp'.last.result
         IN  /\ SameHostFilter(req) # {}
                => /\ result = "PartialIntentConfigFilterAlreadyExistError"
                   /\ partial_intent' = partial_intent
             /\ SameHostConfig(req) # {}
                => /\ result = "PartialIntentConfigAlreadyExistError"
                   /\ partial_intent' = partial_intent]_vars

\* C7 amended: a create is rejected, storing nothing, whenever a stored
\* partial intent with the same hostname has the same canonical filter hash
\* or config hash.  The error is partial-intent-already-exists when the
\* config hash matches; it is filter-already-exists when the filter hash
\* matches and the request's config is well formed and its hash matches no
\* stored intent of that hostname (the config checks come first).
C7_DuplicateRejected ==
    [][PartialCreateAnswered =>
         LET req == partial_resp'.last.obj_in
             result == partial_resp'.last.result
         IN  /\ SameHostFilter(req) # {}
                => /\ result \in {"PartialIntentConfigFilterAlreadyExistError",
                                  "PartialIntentConfigAlreadyExistError",
                                  "XMLParserError"}
                   /\ (WellFormed(req.config) /\ SameHostConfig(req) = {})
                      => result = "PartialIntentConfigFilterAlreadyExistError"
                   /\ partial_intent' = partial_intent
             /\ SameHostConfig(req) # {}
                => /\ result = "PartialIntentConfigAlreadyExistError"
                   /\ partial_intent' = partial_intent]_vars

\* Witness of C7: a create for a hostname-less intent was refused with the
\* filter-already-exists error.
C7_Witness ==
    /\ partial_resp.last.op = "create"
    /\ partial_resp.last.result = "PartialIntentConfigFilterAlreadyExistError"
    /\ partial_resp.last.obj_in.hostname = None
    /\ \E i \in Ids(partial_intent) :
          /\ partial_intent[i].hostname = None
          /\ partial_intent[i].filter_hash = CanonHash(partial_resp.last.obj_in.filter)

\* C8: hostname is a nullable join key: a create is rejected when its config
\* hash or filter hash equals that of a stored partial intent and either of
\* the two is hostname-less, even when the other carries a hostname.
C8_NullableHostnameJoin ==
    [][PartialCreateAnswered =>
         LET req == partial_resp'.last.obj_in
         IN  (\E i \in Ids(partial_intent) :
                 /\ partial_intent[i].hostname = None \/ req.hostname = None
                 /\ \/ partial_intent[i].config_hash = CanonHash(req.config)
                    \/ partial_intent[i].filter_hash = CanonHash(req.filter))
             => /\ partial_resp'.last.result # "created"
                /\ partial_intent' = partial_intent]_vars

\* C9: after any sequence of partial-intent create, update and delete
\* requests, no two stored partial intents with the same hostname have the
\* same config_hash, and no two have the same filter_hash.
C9_PartialIntentsUnique ==
    \A i, k \in Ids(partial_intent) :
        (i # k /\ partial_intent[i].hostname = partial_intent[k].hostname)
        => /\ partial_intent[i].config_hash # partial_intent[k].config_hash
           /\ partial_intent[i].filter_hash # partial_intent[k].filter_hash

(***************************************************************************)
(* Intent groups (logic.py create_intent_group, crud/intent_group.py,      *)
(* api/intent/group.py).  A stored group embeds the partial intents and    *)
(* the groups it references, as they were when it was created.             *)
(***************************************************************************)
Range(seq) == {seq[i] : i \in 1..Len(seq)}

\* IntentGroupCreate: the request body, references given as ids.
IntentGroupCreate(label, hostname, intents, groups) ==
    [id |-> 0, label |-> label, hostname |-> hostname, intents |-> intents, groups |-> groups]

\* Mutant: the query names a key no document has, so nothing is found.
get_by_label_wrong_key(coll, label) == {i \in Ids(coll) : coll[i].hostname = label}

\* CRUDIntentGroup.get_by_label: find_one({"label": label}).
get_by_label(coll, label) == {i \in Ids(coll) : coll[i].label = label}

\* Mutant: no hostname is ever refused.
hostname_check_skipped(group_hostname, existing_hostname) == "ok"

\* Mutant: only a mismatch between two hostnames is refused.
hostname_check_mismatch_only(group_hostname, existing_hostname) ==
    IF group_hostname # None /\ existing_hostname # None
       /\ group_hostname # existing_hostname
    THEN "IntentGroupHostnameMismatchError"
    ELSE "ok"

\* logic.create_intent_group lines 124-131 and 147-154: the hostname of a
\* referenced intent or group against the hostname of the new group.
hostname_check(group_hostname, existing_hostname) ==
    IF group_hostname = None /\ existing_hostname # None
    THEN "IntentGroupHostnameManagedError"
    ELSE IF group_hostname # None /\ existing_hostname # None
            /\ group_hostname # existing_hostname
    THEN "IntentGroupHostnameMismatchError"
    ELSE "ok"

\* logic.create_intent_group lines 117-134: the loop over the referenced
\* intents from position k on, with the ids managed so far.
RECURSIVE resolve_intents(_, _, _, _, _)
resolve_intents(partials, hostname, refs, k, intents_managed) ==
    IF k > Len(refs) THEN [error |-> "ok", intents_managed |-> intents_managed]
    ELSE IF refs[k] \in Range(intents_managed)
    THEN [error |-> "IntentGroupIntentDuplicationError", intents_managed |-> intents_managed]
    ELSE IF refs[k] \notin Ids(partials)
    THEN [error |-> "PartialIntentConfigNotFoundError", intents_managed |-> intents_managed]
    ELSE IF hostname_check(hostname, partials[refs[k]].hostname) # "ok"
    THEN [error |-> hostname_check(hostname, partials[refs[k]].hostname),
          intents_managed |-> intents_managed]
    ELSE resolve_intents(partials, hostname, refs, k + 1, Append(intents_managed, refs[k]))

\* Mutant: the inherited intents are collected without the membership test.
RECURSIVE inherit_intents_unchecked(_, _, _)
inherit_intents_unchecked(inherited, k, intents_managed) ==
    IF k > Len(inherited) THEN [error |-> "ok", intents_managed |-> intents_managed]
    ELSE inherit_intents_unchecked(inherited, k + 1, Append(intents_managed, inherited[k].id))

\* logic.create_intent_group lines 157-161: the intents a referenced group
\* holds directly, from position k on.
RECURSIVE inherit_intents(_, _, _)
inherit_intents(inherited, k, intents_managed) ==
    IF k > Len(inherited) THEN [error |-> "ok", intents_managed |-> intents_managed]
    ELSE IF inherited[k].id \in Range(intents_managed)
    THEN [error |-> "IntentGroupIntentDuplicationError", intents_managed |-> intents_managed]
    ELSE inherit_intents(inherited, k + 1, Append(intents_managed, inherited[k].id))

\* logic.create_intent_group lines 143-163: the loop over the referenced
\* groups from position k on.
RECURSIVE resolve_groups(_, _, _, _, _)
resolve_groups(groups, hostname, refs, k, intents_managed) ==
    IF k > Len(refs) THEN [error |-> "ok", intents_managed |-> intents_managed]
    ELSE IF refs[k] \notin Ids(groups)
    THEN [error |-> "IntentGroupNotFoundError", intents_managed |-> intents_managed]
    ELSE IF hostname_check(hostname, groups[refs[k]].hostname) # "ok"
    THEN [error |-> hostname_check(hostname, groups[refs[k]].hostname),
          intents_managed |-> intents_managed]
    ELSE LET inherited == inherit_intents(groups[refs[k]].intents, 1, intents_managed)
         IN  IF inherited.error # "ok" THEN inherited
             ELSE resolve_groups(groups, hostname, refs, k + 1, inherited.intents_managed)

\* logic.create_intent_group lines 107-165: the error raised, or "created".
create_intent_group_result(groups, partials, obj_in) ==
    IF get_by_label(groups, obj_in.label) # {} THEN "IntentGroupAlreadyExistError"
    ELSE LET direct == resolve_intents(partials, obj_in.hostname, obj_in.intents, 1, <<>>)
         IN  IF direct.error # "ok" THEN direct.error
             ELSE LET inherited == resolve_groups(groups, obj_in.hostname, obj_in.groups, 1,
                                                  direct.intents_managed)
                  IN  IF inherited.error # "ok" THEN inherited.error ELSE "created"

\* The answer to an intent-group request.
GroupResponse(op, id, obj_in, result) ==
    [op |-> op, id |-> id, obj_in |-> obj_in, result |-> result]

\* logic.create_intent_group: the references are replaced by the documents
\* found (lines 136 and 165) and the group is inserted (line 167).
create_intent_group(obj_in) ==
    LET result == create_intent_group_result(intent_group, partial_intent, obj_in)
        resolved == [obj_in EXCEPT
                       !.intents = [i \in 1..Len(obj_in.intents) |-> partial_intent[obj_in.intents[i]]],
                       !.groups = [i \in 1..Len(obj_in.groups) |-> intent_group[obj_in.groups[i]]]]
    IN
    /\ group_resp.count < MaxGroupReqs
    /\ intent_group' = IF result = "created"
                       THEN CRUDBase_create(intent_group, resolved)
                       ELSE intent_group
    /\ group_resp' = [count |-> group_resp.count + 1,
                      last |-> GroupResponse("create",
                                  IF result = "created" THEN Len(intent_group') ELSE 0,
                                  obj_in, result)]

\* api/intent/group.py delete_intent_group.
delete_intent_group(group_id) ==
    /\ group_resp.count < MaxGroupReqs
    /\ intent_group' = IF group_id \in Ids(intent_group)
                       THEN CRUDBase_delete(intent_group, group_id)
                       ELSE intent_group
    /\ group_resp' = [count |-> group_resp.count + 1,
                      last |-> GroupResponse("delete", group_id,
                                  IntentGroupCreate(None, None, <<>>, <<>>),
                                  IF group_id \in Ids(intent_group) THEN "deleted"
                                  ELSE "IntentGroupNotFoundError")]

GroupLabels == {"core", "edge", "site"}
GroupHostnames == {None, "r1", "r2"}
GroupReferences == {<<>>, <<1>>, <<2, 1>>}
GroupIntentReferences == GroupReferences \cup {<<1, 1>>}
GroupPartialRequests ==
    {PartialIntentConfigBase(h, XmlB, XmlA) : h \in {None, "r1"}}
GroupCreateRequests ==
    {IntentGroupCreate(l, h, is, gs) :
        l \in GroupLabels, h \in GroupHostnames,
        is \in GroupIntentReferences, gs \in GroupReferences}

NextGroup ==
    \/ \E intent_in \in GroupPartialRequests :
          partial_resp.count < MaxGroupIntents /\ create_partial_intent(intent_in) /\ UNCHANGED <<worker_vars, full_vars, group_vars>>
    \/ \E obj_in \in GroupCreateRequests :
          create_intent_group(obj_in) /\ UNCHANGED <<worker_vars, full_vars, partial_vars>>
    \/ \E id \in 1..MaxGroupReqs :
          delete_intent_group(id) /\ UNCHANGED <<worker_vars, full_vars, partial_vars>>

SpecGroup == Init /\ [][NextGroup]_vars

(***************************************************************************)
(* Claims about intent-group creation.                                     *)
(***************************************************************************)
\* This step answers a group-creation request.
GroupCreateAnswered ==
    /\ group_resp'.count = group_resp.count + 1
    /\ group_resp'.last.op = "create"

HostnameScopeErrors ==
    {"IntentGroupHostnameManagedError", "IntentGroupHostnameMismatchError"}

\* A referenced hostname the claim calls out of scope for the group.
OutOfScope(group_hostname, hostname) ==
    /\ hostname # None
    /\ group_hostname = None \/ group_hostname # hostname

\* The references of a request in the order the resolver reaches them:
\* the direct intents, then the sub-groups.
RefCount(req) == Len(req.intents) + Len(req.groups)
RefIsIntent(req, p) == p <= Len(req.intents)
RefId(req, p) ==
    IF RefIsIntent(req, p) THEN req.intents[p] ELSE req.groups[p - Len(req.intents)]
RefExists(req, p) ==
    IF RefIsIntent(req, p) THEN RefId(req, p) \in Ids(partial_intent)
    ELSE RefId(req, p) \in Ids(intent_group)
RefHostname(req, p) ==
    IF RefIsIntent(req, p) THEN partial_intent[RefId(req, p)].hostname
    ELSE intent_group[RefId(req, p)].hostname
RefOutOfScope(req, p) ==
    RefExists(req, p) /\ OutOfScope(req.hostname, RefHostname(req, p))
\* The intent ids a reference brings under the new group.
RefIntents(req, p) ==
    IF RefIsIntent(req, p) THEN {RefId(req, p)}
    ELSE IF RefExists(req, p)
    THEN {intent_group[RefId(req, p)].intents[i].id :
             i \in 1..Len(intent_group[RefId(req, p)].intents)}
    ELSE {}
RefRepeats(req, p) ==
    RefIntents(req, p) \cap UNION {RefIntents(req, q) : q \in 1..(p - 1)} # {}
\* Some check that comes before the hostname check of reference p fails.
EarlierCheckFails(req, p) ==
    \/ \E i \in Ids(intent_group) : intent_group[i].label = req.label
    \/ \E q \in 1..(p - 1) : ~RefExists(req, q) \/ RefRepeats(req, q) \/ RefOutOfScope(req, q)
    \/ RefIsIntent(req, p) /\ RefRepeats(req, p)

\* C10 as stated: creating an intent group fails with a hostname-scope error
\* and stores no group whenever the group has no hostname and a referenced
\* partial intent or sub-group has one, or both have one and they differ.
C10_HostnameScopeErrorAlways ==
    [][GroupCreateAnswered =>
         LET req == group_resp'.last.obj_in IN
         (\E p \in 1..RefCount(req) : RefOutOfScope(req, p)) =>
            /\ group_resp'.last.result \in HostnameScopeErrors
            /\ intent_group' = intent_group]_vars

\* C10 amended: such a request is always rejected and stores no group; the
\* error is the hostname-scope error (hostname-managed for a group without
\* hostname, hostname-mismatch otherwise) when no earlier check fails, and a
\* hostname-scope error is only ever raised for an out-of-scope reference.
C10_HostnameScope ==
    [][GroupCreateAnswered =>
         LET req == group_resp'.last.obj_in
             result == group_resp'.last.result
         IN
         /\ (\E p \in 1..RefCount(req) : RefOutOfScope(req, p)) =>
               /\ result # "created"
               /\ intent_group' = intent_group
         /\ \A p \in 1..RefCount(req) :
               RefOutOfScope(req, p) /\ ~EarlierCheckFails(req, p) =>
                  result = IF req.hostname = None
                           THEN "IntentGroupHostnameManagedError"
                           ELSE "IntentGroupHostnameMismatchError"
         /\ result \in HostnameScopeErrors =>
               \E p \in 1..RefCount(req) : RefOutOfScope(req, p)]_vars

\* A group without hostname was refused because a sub-group it references
\* has one.
C10_Witness ==
    /\ group_resp.last.op = "create"
    /\ group_resp.last.result = "IntentGroupHostnameManagedError"
    /\ group_resp.last.obj_in.hostname = None
    /\ group_resp.last.obj_in.intents = <<>>
    /\ \E i \in 1..Len(group_resp.last.obj_in.groups) :
          /\ group_resp.last.obj_in.groups[i] \in Ids(intent_group)
          /\ intent_group[group_resp.last.obj_in.groups[i]].hostname # None

\* A partial intent the request brings under the new group twice: reference p
\* repeats an intent of an earlier reference (both references resolve).
OwnedTwiceAt(req, p) ==
    /\ RefExists(req, p)
    /\ \E q \in 1..(p - 1) :
          RefExists(req, q) /\ RefIntents(req, q) \cap RefIntents(req, p) # {}
OwnedTwice(req) == \E p \in 1..RefCount(req) : OwnedTwiceAt(req, p)

\* Some check that comes before the duplication check of reference p fails.
EarlierThanDuplicationFails(req, p) ==
    \/ \E i \in Ids(intent_group) : intent_group[i].label = req.label
    \/ \E q \in 1..(p - 1) :
          ~RefExists(req, q) \/ RefOutOfScope(req, q) \/ OwnedTwiceAt(req, q)
    \/ ~RefIsIntent(req, p) /\ RefOutOfScope(req, p)

\* C11 as stated: creating an intent group fails with the duplication error
\* and stores no group when a partial intent is listed twice directly, once
\* directly and once through a referenced sub-group, or by two referenced
\* sub-groups.
C11_DuplicationErrorAlways ==
    [][GroupCreateAnswered =>
         LET req == group_resp'.last.obj_in IN
         OwnedTwice(req) =>
            /\ group_resp'.last.result = "IntentGroupIntentDuplicationError"
            /\ intent_group' = intent_group]_vars

\* C11 amended: such a request is always rejected and stores no group; the
\* error is the duplication error when no earlier check fails, and the
\* duplication error is only ever raised for an intent owned twice.
C11_DuplicateOwnership ==
    [][GroupCreateAnswered =>
         LET req == group_resp'.last.obj_in
             result == group_resp'.last.result
         IN
         /\ OwnedTwice(req) =>
               /\ result # "created"
               /\ intent_group' = intent_group
         /\ \A p \in 1..RefCount(req) :
               OwnedTwiceAt(req, p) /\ ~EarlierThanDuplicationFails(req, p) =>
                  result = "IntentGroupIntentDuplicationError"
         /\ result = "IntentGroupIntentDuplicationError" => OwnedTwice(req)]_vars

\* A group was refused because two of the sub-groups it references hold the
\* same partial intent.
C11_Witness ==
    /\ group_resp.last.op = "create"
    /\ group_resp.last.result = "IntentGroupIntentDuplicationError"
    /\ group_resp.last.obj_in.intents = <<>>
    /\ group_resp.last.obj_in.groups = <<2, 1>>
    /\ {1, 2} \subseteq Ids(intent_group)
    /\ \E i \in 1..Len(intent_group[1].intents), k \in 1..Len(intent_group[2].intents) :
          intent_group[1].intents[i].id = intent_group[2].intents[k].id

\* The partial-intent ids in the transitive closure of a stored group, one
\* entry per occurrence: its direct intents, then those of each sub-group.
RECURSIVE ClosureIds(_)
RECURSIVE ClosureIdsOfGroups(_, _)
ClosureIds(group) ==
    [i \in 1..Len(group.intents) |-> group.intents[i].id]
    \o ClosureIdsOfGroups(group.groups, 1)
ClosureIdsOfGroups(groups, k) ==
    IF k > Len(groups) THEN <<>>
    ELSE ClosureIds(groups[k]) \o ClosureIdsOfGroups(groups, k + 1)

\* C12: for every stored intent group, no partial-intent id occurs more than
\* once in its transitive closure (direct intents and the intents owned by
\* its sub-groups at any depth).
C12_ClosureHasNoDuplicates ==
    \A g \in Ids(intent_group) :
       LET ids == ClosureIds(intent_group[g])
       IN  \A i, k \in 1..Len(ids) : ids[i] = ids[k] => i = k

(***************************************************************************)
(* Life of the group store: groups and partial intents are created,        *)
(* updated and deleted in any order.                                       *)
(***************************************************************************)
\* Mutant: the update is accepted and answered as done.
update_intent_group_result_accepted(groups, group_id) ==
    IF group_id \notin Ids(groups) THEN "IntentGroupNotFoundError" ELSE "updated"

\* api/intent/group.py update_intent_group lines 69-72: a missing group is
\* not found; otherwise logic.update_intent_group raises NotImplementedError,
\* which the handler of main.py lines 17-19 turns into
\* NetdriftNotImplementedError.
update_intent_group_result(groups, group_id) ==
    IF group_id \notin Ids(groups) THEN "IntentGroupNotFoundError"
    ELSE "NetdriftNotImplementedError"

\* An update that replaces the sub-groups of a stored group by the stored
\* documents the request names.
update_intent_group_replacing(group_id, obj_in) ==
    LET accepted == /\ group_id \in Ids(intent_group)
                    /\ \A k \in 1..Len(obj_in.groups) : obj_in.groups[k] \in Ids(intent_group)
    IN
    /\ group_resp.count < MaxGroupReqs
    /\ intent_group' = IF accepted
                       THEN [intent_group EXCEPT ![group_id].groups =
                               [k \in 1..Len(obj_in.groups) |-> intent_group[obj_in.groups[k]]]]
                       ELSE intent_group
    /\ group_resp' = [count |-> group_resp.count + 1,
                      last |-> GroupResponse("update", group_id, obj_in,
                                  IF accepted THEN "updated" ELSE "IntentGroupNotFoundError")]

\* api/intent/group.py update_intent_group: nothing is written.
update_intent_group(group_id, obj_in) ==
    /\ group_resp.count < MaxGroupReqs
    /\ intent_group' = intent_group
    /\ group_resp' = [count |-> group_resp.count + 1,
                      last |-> GroupResponse("update", group_id, obj_in,
                                  update_intent_group_result(intent_group, group_id))]

LifeGroupCreateRequests ==
    {IntentGroupCreate(l, h, is, gs) :
        l \in GroupLabels, h \in {None, "r1"},
        is \in {<<>>, <<1>>}, gs \in {<<>>, <<1>>, <<2>>}}
LifeGroupUpdateRequests ==
    {IntentGroupCreate("core", None, is, gs) :
        is \in {<<>>, <<1>>}, gs \in {<<>>, <<1>>}}
LifePartialUpdateRequests ==
    {PartialIntentConfigBase(h, None, None) : h \in {None, "r1"}}

NextGroupLife ==
    \/ \E intent_in \in GroupPartialRequests :
          partial_resp.count < MaxGroupIntents /\ create_partial_intent(intent_in) /\ UNCHANGED <<worker_vars, full_vars, group_vars>>
    \/ \E id \in 1..MaxGroupIntents, obj_in \in LifePartialUpdateRequests :
          update_partial_intent(id, obj_in) /\ UNCHANGED <<worker_vars, full_vars, group_vars>>
    \/ \E id \in 1..MaxGroupIntents :
          delete_partial_intent(id) /\ UNCHANGED <<worker_vars, full_vars, group_vars>>
    \/ \E obj_in \in LifeGroupCreateRequests :
          create_intent_group(obj_in) /\ UNCHANGED <<worker_vars, full_vars, partial_vars>>
    \/ \E id \in 1..MaxGroupReqs, obj_in \in LifeGroupUpdateRequests :
          update_intent_group(id, obj_in) /\ UNCHANGED <<worker_vars, full_vars, partial_vars>>
    \/ \E id \in 1..MaxGroupReqs :
          delete_intent_group(id) /\ UNCHANGED <<worker_vars, full_vars, partial_vars>>

SpecGroupLife == Init /\ [][NextGroupLife]_vars

\* Everything a group holds, at any depth, has a hostname that is absent or
\* equal to group_hostname (absent when group_hostname is).
RECURSIVE ScopedUnder(_, _)
ScopedUnder(group, group_hostname) ==
    /\ \A i \in 1..Len(group.intents) :
          /\ ~OutOfScope(group_hostname, group.intents[i].hostname)
          /\ group.intents[i].id \in Ids(partial_intent) =>
                ~OutOfScope(group_hostname, partial_intent[group.intents[i].id].hostname)
    /\ \A k \in 1..Len(group.groups) :
          /\ ~OutOfScope(group_hostname, group.groups[k].hostname)
          /\ ScopedUnder(group.groups[k], group_hostname)

C14_LabelUnique ==
    /\ [](\A i, k \in Ids(intent_group) :
             intent_group[i].label = intent_group[k].label => i = k)
    /\ [][GroupCreateAnswered =>
            LET req == group_resp'.last.obj_in IN
            (\E i \in Ids(intent_group) : intent_group[i].label = req.label) =>
               /\ group_resp'.last.result = "IntentGroupAlreadyExistError"
               /\ intent_group' = intent_group]_vars

\* A request with a stored label was refused as already existing although
\* its first reference names no stored partial intent.
C14_Witness ==
    /\ group_resp.last.op = "create"
    /\ group_resp.last.result = "IntentGroupAlreadyExistError"
    /\ group_resp.last.obj_in.intents = <<2, 1>>
    /\ 2 \notin Ids(partial_intent)
    /\ \E i \in Ids(intent_group) : intent_group[i].label = group_resp.last.obj_in.label

\* This step answers a group-update request for a stored group.
GroupUpdateAnswered ==
    /\ group_resp'.count = group_resp.count + 1
    /\ group_resp'.last.op = "update"
    /\ group_resp'.last.id \in Ids(intent_group)

\* C15: every request to update an existing intent group fails with the
\* not-implemented error, which is neither not-found nor a validation error,
\* and leaves every stored group unchanged.
C15_GroupUpdateNotImplemented ==
    [][GroupUpdateAnswered =>
         /\ group_resp'.last.result = "NetdriftNotImplementedError"
         /\ group_resp'.last.result \notin
               {"IntentGroupNotFoundError", "XMLParserError",
                "IntentGroupAlreadyExistError", "IntentGroupIntentDuplicationError"}
               \cup HostnameScopeErrors
         /\ intent_group' = intent_group]_vars

\* An update of a stored group that holds a partial intent was refused as
\* not implemented.
C15_Witness ==
    /\ group_resp.last.op = "update"
    /\ group_resp.last.result = "NetdriftNotImplementedError"
    /\ group_resp.last.id \in Ids(intent_group)
    /\ intent_group[group_resp.last.id].intents # <<>>

(***************************************************************************)
(* The intent routes with the locked fields in play                        *)
(***************************************************************************)
MaxApiFullReqs == 2
MaxApiPartialReqs == 2

ApiFullCreateRequests ==
    {<<h, c, m>> : h \in {"r1"}, c \in {XmlAws, XmlBad}, m \in BOOLEAN}

ApiFullUpdateRequests ==
    {FullIntentConfigUpdate(i, h, m, c) :
        i \in {0, 2}, h \in {None, "r2"}, m \in BOOLEAN, c \in {None, XmlBad}}

ApiPartialCreateRequests ==
    {[PartialIntentConfigBase(h, c, f) EXCEPT !.netdrift_managed = m] :
        h \in PartialHostnames, c \in {XmlB, XmlBad}, f \in {XmlA, XmlBad}, m \in BOOLEAN}

ApiPartialUpdateRequests ==
    {[PartialIntentConfigBase(h, c, f) EXCEPT !.id = i, !.netdrift_managed = m] :
        h \in PartialHostnames, c \in {None, XmlBad}, f \in {None, XmlBws, XmlBad},
        i \in {0, 2}, m \in BOOLEAN}

\* The full-intent and partial-intent routes, each request served whole.
NextIntentApi ==
    \/ \E req \in ApiFullCreateRequests :
          /\ Len(full_reqs) < MaxApiFullReqs
          /\ create_full_intent_check(req[1], req[2], req[3])
          /\ UNCHANGED <<worker_vars, partial_vars, group_vars>>
    \/ \E r \in 1..MaxApiFullReqs :
          /\ r \in 1..Len(full_reqs)
          /\ create_full_intent_insert(r)
          /\ UNCHANGED <<worker_vars, partial_vars, group_vars>>
    \/ \E id \in {1}, obj_in \in ApiFullUpdateRequests :
          /\ Len(full_reqs) < MaxApiFullReqs
          /\ update_full_intent(id, obj_in)
          /\ UNCHANGED <<worker_vars, partial_vars, group_vars>>
    \/ \E intent_in \in ApiPartialCreateRequests :
          /\ partial_resp.count < MaxApiPartialReqs
          /\ create_partial_intent(intent_in)
          /\ UNCHANGED <<worker_vars, full_vars, group_vars>>
    \/ \E id \in {1}, obj_in \in ApiPartialUpdateRequests :
          /\ partial_resp.count < MaxApiPartialReqs
          /\ update_partial_intent(id, obj_in)
          /\ UNCHANGED <<worker_vars, full_vars, group_vars>>

SpecIntentApi == Init /\ [][NextIntentApi]_vars

\* The step that answers an update request for a stored partial intent.
PartialUpdateAnswered ==
    /\ partial_resp'.count = partial_resp.count + 1
    /\ partial_resp'.last.op = "update"
    /\ partial_resp'.last.id \in Ids(partial_intent)

\* The step that answers an update request for a stored full intent.
FullUpdateAnswered ==
    /\ Len(full_reqs') = Len(full_reqs) + 1
    /\ full_reqs'[Len(full_reqs')].op = "update"
    /\ full_reqs'[Len(full_reqs')].id \in Ids(full_intent)

LockErrors == {"IntentConfigHostnameLockError", "IntentConfigAPILockError"}

\* The request asks for a hostname or a netdrift_managed other than db_obj's.
ChangesLockedField(hostname, netdrift_managed, db_obj) ==
    \/ hostname # None /\ hostname # db_obj.hostname
    \/ netdrift_managed # db_obj.netdrift_managed

\* No stored document of coll has another hostname or netdrift_managed in
\* the next state.
LockedFieldsKept(coll, coll_next) ==
    \A id \in Ids(coll) \cap Ids(coll_next) :
       /\ coll_next[id].hostname = coll[id].hostname
       /\ coll_next[id].netdrift_managed = coll[id].netdrift_managed

\* C22: an update request for a full or partial intent that asks for a
\* hostname or a netdrift_managed different from the stored one is answered
\* with a lock error and leaves the store unchanged, and no step changes the
\* hostname or netdrift_managed of a stored intent.
C22_LockedFieldsRejected ==
    [][/\ PartialUpdateAnswered
          => LET last == partial_resp'.last
             IN  ChangesLockedField(last.obj_in.hostname, last.obj_in.netdrift_managed,
                                    partial_intent[last.id])
                 => /\ last.result \in LockErrors
                    /\ partial_intent' = partial_intent
       /\ FullUpdateAnswered
          => LET req == full_reqs'[Len(full_reqs')]
             IN  ChangesLockedField(req.hostname, req.netdrift_managed, full_intent[req.id])
                 => /\ req.result \in LockErrors
                    /\ full_intent' = full_intent
       /\ LockedFieldsKept(partial_intent, partial_intent')
       /\ LockedFieldsKept(full_intent, full_intent')]_vars

\* The answers that are a Netdrift error with code, reason, message and
\* status saying that the update is refused.
UpdateRefusals ==
    LockErrors \cup {"FullIntentConfigUpdateError", "PartialIntentConfigUpdateError"}

\* C23: an update request for a full or partial intent that carries an id
\* different from the stored record's id is answered with a structured
\* immutable-field or update error and leaves the store unchanged.
C23_IdChangeRejected ==
    [][/\ PartialUpdateAnswered
          => LET last == partial_resp'.last
             IN  (last.obj_in.id # 0 /\ last.obj_in.id # last.id)
                 => /\ last.result \in UpdateRefusals
                    /\ partial_intent' = partial_intent
       /\ FullUpdateAnswered
          => LET req == full_reqs'[Len(full_reqs')]
             IN  (req.obj_id # 0 /\ req.obj_id # req.id)
                 => /\ req.result \in UpdateRefusals
                    /\ full_intent' = full_intent]_vars

\* A document that is given and does not parse.
Malformed(text) == text # None /\ ~WellFormed(text)

\* The step that answers a create request for a full intent.
FullCreateAnswered ==
    /\ Len(full_reqs') = Len(full_reqs) + 1
    /\ full_reqs'[Len(full_reqs')].op = "create"

MaxStoreReqs == 3

\* What insert_one / update_one may raise, by the except clause that
\* catches it, and "none" for a call that goes through.
StoreFailures == {"WriteError", "OperationFailure", "PyMongoError", "Exception"}

\* CRUDBase.create lines 106-126: every except clause ends in raise.
CRUDBase_create_raises(failure) == failure \in StoreFailures

\* Mutant: the WriteError clause of update ends in raise, like its
\* neighbours.
CRUDBase_update_raises_WriteError(failure) ==
    failure \in {"WriteError", "OperationFailure", "PyMongoError"}

\* CRUDBase.update lines 193-215: the OperationFailure and PyMongoError
\* clauses end in raise; the WriteError and Exception clauses only log.
CRUDBase_update_raises(failure) == failure \in {"OperationFailure", "PyMongoError"}

\* CRUDBase.create on the partial-intent collection: insert_one, then the
\* inserted document is read back and returned.
crud_create(obj_in, failure) ==
    /\ partial_resp.count < MaxStoreReqs
    /\ partial_intent' = IF failure = "none"
                         THEN CRUDBase_create(partial_intent, obj_in)
                         ELSE partial_intent
    /\ partial_resp' =
          [count |-> partial_resp.count + 1,
           last |-> [op |-> "crud_create", id |-> Len(partial_intent'),
                     obj_in |-> obj_in, failure |-> failure,
                     result |-> IF CRUDBase_create_raises(failure) THEN failure ELSE "returned",
                     returned |-> IF CRUDBase_create_raises(failure) THEN <<>>
                                  ELSE <<partial_intent'[Len(partial_intent')]>>]]

\* CRUDBase.update on the partial-intent collection, with db_obj the
\* document as the caller read it: update_one, then the document is read
\* back and returned, also after a failure that was only logged.
crud_update(id, obj_in, failure) ==
    /\ partial_resp.count < MaxStoreReqs
    /\ id \in Ids(partial_intent)
    /\ partial_intent' = IF failure = "none"
                         THEN CRUDBase_update(partial_intent, id, partial_intent[id], obj_in)
                         ELSE partial_intent
    /\ partial_resp' =
          [count |-> partial_resp.count + 1,
           last |-> [op |-> "crud_update", id |-> id,
                     obj_in |-> obj_in, failure |-> failure,
                     result |-> IF CRUDBase_update_raises(failure) THEN failure ELSE "returned",
                     returned |-> IF CRUDBase_update_raises(failure) THEN <<>>
                                  ELSE <<partial_intent'[id]>>]]

StoreCreateObjects ==
    {[PartialIntentConfigBase(h, XmlB, XmlA)
         EXCEPT !.config_hash = sha256(XmlB), !.filter_hash = sha256(XmlA)] :
        h \in PartialHostnames}

StoreUpdateObjects ==
    {[PartialIntentConfigBase(None, c, None)
         EXCEPT !.config_hash = IF c = None THEN None ELSE sha256(c)] :
        c \in {None, XmlA}}

NextStore ==
    \/ \E obj_in \in StoreCreateObjects, failure \in StoreFailures \cup {"none"} :
          crud_create(obj_in, failure) /\ UNCHANGED <<worker_vars, full_vars, group_vars>>
    \/ \E id \in 1..MaxStoreReqs, obj_in \in StoreUpdateObjects,
          failure \in StoreFailures \cup {"none"} :
          crud_update(id, obj_in, failure) /\ UNCHANGED <<worker_vars, full_vars, group_vars>>

SpecStore == Init /\ [][NextStore]_vars

\* The step that answers a CRUDBase call of kind op.
CrudAnswered(op) ==
    /\ partial_resp'.count = partial_resp.count + 1
    /\ partial_resp'.last.op = op

\* C24 as stated: a failing insert is raised to the caller, returns no
\* record and stores none; every failing update is absorbed and returns
\* the record as it is stored.
C24_UpdateFailuresAbsorbed ==
    [][/\ (CrudAnswered("crud_create") /\ partial_resp'.last.failure # "none")
          => /\ partial_resp'.last.result = partial_resp'.last.failure
             /\ partial_resp'.last.returned = <<>>
             /\ partial_intent' = partial_intent
       /\ (CrudAnswered("crud_update") /\ partial_resp'.last.failure # "none")
          => /\ partial_resp'.last.result = "returned"
             /\ partial_resp'.last.returned = <<partial_intent'[partial_resp'.last.id]>>
             /\ partial_intent' = partial_intent]_vars

\* C24: a failing insert is raised to the caller, returns no record and
\* stores none; a failing update leaves the store unchanged, and when the
\* failure is a WriteError or an exception outside pymongo's hierarchy it
\* is absorbed and the call returns the record as it is stored, while an
\* OperationFailure or another PyMongoError is raised to the caller.
C24_WriteErrorAbsorbed ==
    [][/\ (CrudAnswered("crud_create") /\ partial_resp'.last.failure # "none")
          => /\ partial_resp'.last.result = partial_resp'.last.failure
             /\ partial_resp'.last.returned = <<>>
             /\ partial_intent' = partial_intent
       /\ (CrudAnswered("crud_update") /\ partial_resp'.last.failure # "none")
          => /\ partial_intent' = partial_intent
             /\ IF partial_resp'.last.failure \in {"WriteError", "Exception"}
                THEN /\ partial_resp'.last.result = "returned"
                     /\ partial_resp'.last.returned
                           = <<partial_intent'[partial_resp'.last.id]>>
                ELSE /\ partial_resp'.last.result = partial_resp'.last.failure
                     /\ partial_resp'.last.returned = <<>>]_vars

\* An update that asked for another config met a WriteError: the call
\* returned the stored record, which still has the old config.
C24_Witness ==
    /\ partial_resp.last.op = "crud_update"
    /\ partial_resp.last.failure = "WriteError"
    /\ partial_resp.last.result = "returned"
    /\ partial_resp.last.obj_in.config = XmlA
    /\ partial_resp.last.returned = <<partial_intent[partial_resp.last.id]>>
    /\ partial_intent[partial_resp.last.id].config = XmlB

(***************************************************************************)
(* Further claims about the worker jobs                                    *)
(***************************************************************************)
\* C16: when a discovery job (creation or resync) has fetched the device
\* configuration and ends while its intent is stored, the stored config is
\* the canonical form of the reply, config_hash is the digest of that form
\* and last_discovery_status is success.
C16_DiscoveryStoresCanonical ==
    [][\A j \in JobIds :
         (/\ jobs[j].fn = "create_intent"
          /\ jobs[j].pc = "fetched"
          /\ JobEnds(j)
          /\ jobs[j].intent.id \in Ids(intent))
         => LET id == jobs[j].intent.id
                canonical == format_xml(validate_xml(jobs[j].reply))
            IN  /\ id \in Ids(intent')
                /\ intent'[id].config = canonical
                /\ intent'[id].config_hash = sha256(canonical)
                /\ intent'[id].last_discovery_status = "success"]_vars

\* A discovery job received a reply that is not in canonical form and
\* succeeded; the intent holds the canonical text.
C16_Witness ==
    \E j \in JobIds :
       /\ jobs[j].fn = "create_intent"
       /\ jobs[j].pc = "succeeded"
       /\ jobs[j].reply = XmlBws
       /\ jobs[j].intent.id \in Ids(intent)
       /\ intent[jobs[j].intent.id].config = XmlB

\* C17: when the delivery of the notification fails in a diff job, the
\* IntentDiff the job persisted before notifying stays in the store, and no
\* job attempts its delivery a second time.
C17_FailedDeliveryKeepsDiff ==
    /\ \A e \in 1..Len(webhook_log) :
          ~webhook_log[e].delivered =>
             /\ webhook_log[e].intent_diff \in Ids(intent_diff)
             /\ intent_diff[webhook_log[e].intent_diff].intent_id
                   = jobs[webhook_log[e].job].intent.id
             /\ jobs[webhook_log[e].job].pc \in Ended
    /\ \A e, f \in 1..Len(webhook_log) :
          webhook_log[e].job = webhook_log[f].job => e = f

\* The delivery of a diff job failed; its IntentDiff is stored.
C17_Witness ==
    \E e \in 1..Len(webhook_log) :
       /\ ~webhook_log[e].delivered
       /\ jobs[webhook_log[e].job].pc = "crashed"
       /\ webhook_log[e].intent_diff \in Ids(intent_diff)
       /\ intent_diff[webhook_log[e].intent_diff].diff # <<>>

\* The discovery jobs issued for intent id, by job id.
DiscoveryJobs(id) ==
    {j \in JobIds : jobs[j].fn = "create_intent" /\ jobs[j].intent.id = id}

\* C18: in every reachable state the stored last_discovery_id of an intent
\* is the id of the discovery job most recently issued for it, also when an
\* earlier discovery job completes after a later one was issued.
C18_LastDiscoveryIdIsLatest ==
    \A id \in Ids(intent) :
       /\ DiscoveryJobs(id) # {}
       /\ intent[id].last_discovery_id \in DiscoveryJobs(id)
       /\ \A j \in DiscoveryJobs(id) : j <= intent[id].last_discovery_id

\* Job j takes a step.
JobSteps(j) == jobs'[j].pc # jobs[j].pc

\* The step of job j in which it is aborted.
JobAborted(j) == jobs[j].pc # "aborted" /\ jobs'[j].pc = "aborted"

\* C19: a job aborted before it finishes leaves the stored intents as they
\* were last written.  A job changes the store's intents in one step only:
\* the last step of a discovery job, after its device session has ended,
\* which touches the job's own intent document and nothing else; a job that
\* has ended or was aborted takes no further step.
C19_AbortLeavesLastWritten ==
    [][\A j \in JobIds :
         /\ JobAborted(j) => intent' = intent
         /\ jobs[j].pc \in Ended \cup {"aborted"} => jobs'[j] = jobs[j]
         /\ (JobSteps(j) /\ intent' # intent)
            => /\ jobs[j].fn = "create_intent"
               /\ jobs[j].pc = "fetched"
               /\ jobs'[j].pc \in Ended
               /\ Len(intent') = Len(intent)
               /\ \A id \in 1..Len(intent) :
                     id # jobs[j].intent.id => intent'[id] = intent[id]]_vars

\* A discovery job was aborted after the device replied and before it
\* wrote; its intent still carries the fields of creation.
C19_Witness ==
    \E j \in JobIds :
       /\ jobs[j].fn = "create_intent"
       /\ jobs[j].pc = "aborted"
       /\ jobs[j].config_xml # None
       /\ jobs[j].intent.id \in Ids(intent)
       /\ intent[jobs[j].intent.id].last_discovery_status = "unknown"
       /\ intent[jobs[j].intent.id].config_hash = None

\* The positions a job may move to from position pc: connect and fetch,
\* then compare and persist (or the one write of a discovery), then notify.
StepOrder(pc) ==
    CASE pc = "dispatched" -> {"connecting", "crashed", "aborted"}
      [] pc = "connecting" -> {"fetched", "failed", "crashed", "aborted"}
      [] pc = "fetched"    -> {"persisted", "succeeded", "crashed", "aborted"}
      [] pc = "persisted"  -> {"succeeded", "crashed", "aborted"}
      [] OTHER             -> {}

\* C20: within one job the steps happen in the order connect, fetch,
\* canonicalize, compare/persist, notify.  A job writes the store only after
\* its fetch has returned and the reply was canonicalized, and the Notifier
\* is invoked only by a job that has persisted its IntentDiff, about that
\* IntentDiff.
C20_StepOrder ==
    [][/\ \A j \in JobIds :
            JobSteps(j) =>
               /\ jobs'[j].pc \in StepOrder(jobs[j].pc)
               /\ (intent' # intent \/ intent_diff' # intent_diff)
                  => /\ jobs[j].pc = "fetched"
                     /\ jobs[j].reply # None
                     /\ jobs[j].config_xml = C14N2(ET_XML(jobs[j].reply))
               /\ jobs'[j].pc = "persisted"
                  => /\ Len(intent_diff') = Len(intent_diff) + 1
                     /\ jobs'[j].intent_diff = Len(intent_diff')
       /\ webhook_log' # webhook_log
          => /\ Len(webhook_log') = Len(webhook_log) + 1
             /\ LET e == webhook_log'[Len(webhook_log')]
                IN  /\ e.job \in JobIds
                    /\ jobs[e.job].pc = "persisted"
                    /\ e.intent_diff = jobs[e.job].intent_diff
                    /\ e.intent_diff \in Ids(intent_diff)
                    /\ intent_diff[e.intent_diff].intent_id = jobs[e.job].intent.id]_vars

\* A diff job went through every step: it fetched, persisted an IntentDiff
\* and delivered the notification about it.
C20_Witness ==
    \E e \in 1..Len(webhook_log) :
       /\ webhook_log[e].delivered
       /\ jobs[webhook_log[e].job].pc = "succeeded"
       /\ jobs[webhook_log[e].job].reply # None
       /\ webhook_log[e].intent_diff \in Ids(intent_diff)

\* The positions in which a job has finished: its function returned
\* (succeeded, or failed on a transport error), raised, or was cancelled.
Finished == Ended \cup {"aborted"}

\* C21: a job moves dispatched -> connecting -> fetched -> (compared) ->
\* finished and every job eventually finishes; it enters the connection
\* step once, from dispatched, and never returns to an earlier position; a
\* job that met a transport error is finished and takes no further step.
C21_JobTerminates ==
    /\ [][\A j \in JobIds :
            /\ jobs'[j].pc = "dispatched" => jobs[j].pc = "dispatched"
            /\ (jobs'[j].pc = "connecting" /\ jobs[j].pc # "connecting")
               => jobs[j].pc = "dispatched"
            /\ jobs[j].pc \in {"fetched", "persisted"}
               => jobs'[j].pc \notin {"dispatched", "connecting"}
            /\ jobs[j].pc \in Finished => jobs'[j] = jobs[j]
            /\ jobs'[j].ssh_error => jobs'[j].pc \in Finished]_vars
    /\ \A j \in 1..MaxJobs :
          (j \in JobIds) ~> (j \in JobIds /\ jobs[j].pc \in Finished)

\* A discovery job failed on a transport error and the other job, issued
\* afterwards by a resync, finished too.
C21_Witness ==
    \E j, k \in JobIds :
       /\ j # k
       /\ jobs[j].fn = "create_intent"
       /\ jobs[j].ssh_error
       /\ jobs[j].pc = "failed"
       /\ jobs[k].pc \in Finished

\* C25: the stored IntentDiffs only grow: every step keeps each stored
\* IntentDiff as it is, also the step that deletes the owning intent, and a
\* step that adds IntentDiffs adds one, made by a diff job that has fetched
\* the device configuration, for that job's intent.
C25_IntentDiffAppendOnly ==
    [][/\ Len(intent_diff') >= Len(intent_diff)
       /\ \A d \in 1..Len(intent_diff) :
             /\ intent_diff[d] # Deleted
             /\ intent_diff'[d] = intent_diff[d]
       /\ intent_diff' # intent_diff
          => /\ Len(intent_diff') = Len(intent_diff) + 1
             /\ \E j \in JobIds :
                   /\ jobs[j].fn = "intent_diff"
                   /\ jobs[j].pc = "fetched"
                   /\ jobs'[j].pc \in {"persisted", "succeeded"}
                   /\ intent_diff'[Len(intent_diff')].intent_id = jobs[j].intent.id]_vars

\* The owning intent was deleted and its IntentDiff is still stored.
C25_Witness ==
    \E d \in Ids(intent_diff) :
       /\ intent_diff[d].intent_id \in 1..Len(intent)
       /\ intent[intent_diff[d].intent_id] = Deleted

\* C26: a delivery counts as successful exactly when the response status
\* is in the 200 class.
C26_SuccessIs2xx ==
    \A e \in 1..Len(webhook_log) :
       webhook_log[e].delivered <=> webhook_log[e].status \in 200..299

\* The fields a discovery job is to write.
DiscoveryFields == {"config", "config_hash", "last_discovery_status", "last_discovery_message"}

\* The step in which discovery job j writes its result to its stored intent.
DiscoveryWrites(j) ==
    /\ jobs[j].fn = "create_intent"
    /\ jobs[j].pc = "fetched"
    /\ jobs'[j].pc = "succeeded"
    /\ jobs[j].intent.id \in Ids(intent)

\* C27: the write of a discovery job changes only config, config_hash,
\* last_discovery_status and last_discovery_message of its intent; every
\* other field keeps the value it had before the write, also one that an
\* update request changed after the job was enqueued.
C27_DiscoveryWritesOnlyItsFields ==
    [][\A j \in JobIds :
         DiscoveryWrites(j)
         => \A f \in DOMAIN intent[jobs[j].intent.id] \ DiscoveryFields :
               intent'[jobs[j].intent.id][f] = intent[jobs[j].intent.id][f]]_vars

\* The step in which diff job j computes its diff while its intent is stored
\* with a configuration.
DiffJobPersists(j) ==
    /\ jobs[j].fn = "intent_diff"
    /\ jobs[j].pc = "fetched"
    /\ Len(intent_diff') = Len(intent_diff) + 1
    /\ jobs'[j].intent_diff = Len(intent_diff')
    /\ jobs[j].intent.id \in Ids(intent)

\* C28: the IntentDiff a diff job stores holds the intent configuration as
\* stored when the diff is computed, its diff is taken against that
\* configuration, and the job decides between in sync and drifted by the
\* config_hash stored at that time.
C28_DiffAgainstStoredIntent ==
    [][\A j \in JobIds :
         /\ DiffJobPersists(j)
            => LET stored == intent[jobs[j].intent.id]
                   made == intent_diff'[Len(intent_diff')]
               IN  /\ made.intent = stored.config
                   /\ stored.config # None
                      => made.diff = diff_str(jobs[j].config_xml, stored.config)
                   /\ sha256(jobs[j].config_xml) # stored.config_hash
         /\ (DiffJobCompares(j) /\ jobs'[j].pc = "succeeded"
             /\ Len(intent_diff') = Len(intent_diff))
            => sha256(jobs[j].config_xml) = intent[jobs[j].intent.id].config_hash]_vars

\* Two well-formed documents that differ at most in whitespace-only text
\* and in the order of their attributes.
Equivalent(x, y) ==
    /\ WellFormed(x)
    /\ WellFormed(y)
    /\ ET_XML(x).tag = ET_XML(y).tag
    /\ ET_XML(x).children = ET_XML(y).children
    /\ Len(ET_XML(x).attrs) = Len(ET_XML(y).attrs)
    /\ {ET_XML(x).attrs[k] : k \in 1..Len(ET_XML(x).attrs)}
          = {ET_XML(y).attrs[k] : k \in 1..Len(ET_XML(y).attrs)}

\* C31: two well-formed documents that differ only in insignificant
\* whitespace or attribute order have the same canonical text and hash, and
\* the duplicate checks of a partial create, which look stored records up by
\* config_hash and filter_hash, treat them as one document: in every
\* reachable state a create request gets the same answer with either of the
\* two as its config or as its filter, and a create whose config (or, when
\* no config matches, whose filter) is equivalent to a document stored under
\* its hash for the same hostname is answered already-exists and stores
\* nothing.
C31_EquivalentDocumentsSameHash ==
    /\ [](\A x, y \in Texts : Equivalent(x, y) => canonicalize(x) = canonicalize(y))
    /\ [](\A x, y \in Texts : \A h \in PartialHostnames : \A z \in Texts :
            Equivalent(x, y)
            => /\ create_partial_intent_result(partial_intent, PartialIntentConfigBase(h, x, z))
                  = create_partial_intent_result(partial_intent, PartialIntentConfigBase(h, y, z))
               /\ create_partial_intent_result(partial_intent, PartialIntentConfigBase(h, z, x))
                  = create_partial_intent_result(partial_intent, PartialIntentConfigBase(h, z, y)))
    /\ [][PartialCreateAnswered
          => LET req == partial_resp'.last.obj_in
                 config_twins == {i \in Ids(partial_intent) :
                                    /\ partial_intent[i].hostname = req.hostname
                                    /\ partial_intent[i].config_hash
                                          = CanonHash(partial_intent[i].config)
                                    /\ Equivalent(partial_intent[i].config, req.config)}
                 filter_twins == {i \in Ids(partial_intent) :
                                    /\ partial_intent[i].hostname = req.hostname
                                    /\ partial_intent[i].filter_hash
                                          = CanonHash(partial_intent[i].filter)
                                    /\ Equivalent(partial_intent[i].filter, req.filter)}
                 config_found == get_all_by_config_hash(partial_intent,
                                    CanonHash(req.config), req.hostname) # {}
             IN  /\ config_twins # {}
                    => /\ partial_resp'.last.result = "PartialIntentConfigAlreadyExistError"
                       /\ partial_intent' = partial_intent
                 /\ (WellFormed(req.config) /\ ~config_found /\ filter_twins # {})
                    => /\ partial_resp'.last.result
                             = "PartialIntentConfigFilterAlreadyExistError"
                       /\ partial_intent' = partial_intent]_vars

\* A create whose filter differs from a stored filter of the same hostname
\* in whitespace only was answered filter-already-exists.
C31_Witness ==
    /\ partial_resp.last.op = "create"
    /\ partial_resp.last.result = "PartialIntentConfigFilterAlreadyExistError"
    /\ \E i \in Ids(partial_intent) :
          /\ partial_intent[i].hostname = partial_resp.last.obj_in.hostname
          /\ partial_intent[i].filter # partial_resp.last.obj_in.filter
          /\ Equivalent(partial_intent[i].filter, partial_resp.last.obj_in.filter)

\* Discovery job k of the same intent as job j has fetched successfully and
\* has not failed since: the two jobs race for the intent's fields.
RacesWith(j, k) ==
    /\ k # j
    /\ jobs[k].fn = "create_intent"
    /\ jobs[k].intent.id = jobs[j].intent.id
    /\ jobs[k].pc \in {"fetched", "succeeded"}

\* C32: when two discovery jobs of one intent both fetch successfully, each
\* write puts config, config_hash, last_discovery_status and
\* last_discovery_message of the writing job on the intent in one step, so
\* that after both have written all four come from the job that wrote last.
C32_LastWriterWins ==
    [][\A j, k \in JobIds :
         (DiscoveryWrites(j) /\ RacesWith(j, k))
         => LET id == jobs[j].intent.id
            IN  /\ intent'[id].config = jobs[j].config_xml
                /\ intent'[id].config_hash = sha256(jobs[j].config_xml)
                /\ intent'[id].last_discovery_status = "success"
                /\ intent'[id].last_discovery_message
                      = create_intent_update_obj(jobs[j].config_xml).last_discovery_message]_vars

\* Two discovery jobs of one intent fetched different configurations and
\* both wrote; the intent holds the configuration and the digest of one.
C32_Witness ==
    \E j, k \in JobIds :
       /\ j # k
       /\ jobs[j].fn = "create_intent" /\ jobs[k].fn = "create_intent"
       /\ jobs[j].intent.id = jobs[k].intent.id
       /\ jobs[j].pc = "succeeded" /\ jobs[k].pc = "succeeded"
       /\ jobs[j].config_xml # jobs[k].config_xml
       /\ jobs[j].intent.id \in Ids(intent)
       /\ intent[jobs[j].intent.id].config = jobs[j].config_xml
       /\ intent[jobs[j].intent.id].config_hash = sha256(jobs[j].config_xml)
       /\ intent[jobs[j].intent.id].last_discovery_status = "success"

\* The Notifier invocations made by job j.
Notifications(j) == {e \in 1..Len(webhook_log) : webhook_log[e].job = j}

\* C33: a diff job that completed the diff path, in sync or drifted, has
\* invoked the Notifier exactly once when it was given a webhook target, and
\* a diff job without a webhook target has not invoked it.
C33_NotifiedOncePerDiff ==
    \A j \in JobIds :
       jobs[j].fn = "intent_diff"
       => /\ (jobs[j].webhook /\ jobs[j].pc = "succeeded")
             => Cardinality(Notifications(j)) = 1
          /\ ~jobs[j].webhook => Notifications(j) = {}

\* The ids of the sub-groups a group document holds, at any depth.
RECURSIVE SubGroupIds(_)
SubGroupIds(group) ==
    UNION {{group.groups[k].id} \cup SubGroupIds(group.groups[k]) :
              k \in 1..Len(group.groups)}

\* The ids reached from ids in at most n further steps of the stored
\* sub-group relation.
RECURSIVE Descendants(_, _)
Descendants(ids, n) ==
    IF n = 0 THEN ids
    ELSE Descendants(ids \cup UNION {SubGroupIds(intent_group[g]) :
                                        g \in ids \cap Ids(intent_group)}, n - 1)

\* C34: in every reachable state the sub-group relation among the stored
\* intent groups is acyclic: no stored group is among its own sub-groups at
\* any depth, through the documents it holds or through the stored groups
\* they name.
C34_SubGroupsAcyclic ==
    \A g \in Ids(intent_group) :
       g \notin Descendants(SubGroupIds(intent_group[g]), Len(intent_group))

\* A stored group holds a sub-group, and an update naming sub-groups for a
\* stored group has just been answered.
C34_Witness ==
    /\ \E g \in Ids(intent_group) : SubGroupIds(intent_group[g]) # {}
    /\ group_resp.last.op = "update"
    /\ group_resp.last.id \in Ids(intent_group)
    /\ Len(group_resp.last.obj_in.groups) > 0

\* C35: for every stored full or partial intent, config_hash is the digest of
\* the canonical form of the stored config, and for partial intents
\* filter_hash is the digest of the canonical form of the stored filter.
C35_StoredHashesAreDigests ==
    /\ \A i \in Ids(full_intent) :
          full_intent[i].config_hash = CanonHash(full_intent[i].config)
    /\ \A i \in Ids(partial_intent) :
          /\ partial_intent[i].config_hash = CanonHash(partial_intent[i].config)
          /\ partial_intent[i].filter_hash = CanonHash(partial_intent[i].filter)

\* C36: every partial intent held in a stored group's member list exists in
\* the partial-intent store with the same config_hash and filter_hash, and
\* every sub-group held in a stored group exists in the group store.
C36_GroupReferencesResolve ==
    \A g \in Ids(intent_group) :
       /\ \A i \in 1..Len(intent_group[g].intents) :
             LET member == intent_group[g].intents[i]
             IN  /\ member.id \in Ids(partial_intent)
                 /\ partial_intent[member.id].config_hash = member.config_hash
                 /\ partial_intent[member.id].filter_hash = member.filter_hash
       /\ \A k \in 1..Len(intent_group[g].groups) :
             intent_group[g].groups[k].id \in Ids(intent_group)

\* The JSON bodies of update requests: a body carries only the fields the
\* caller wrote.
PartialUpdateBodies ==
    {[filter |-> XmlBws], [config |-> XmlBad]}
    \cup {[netdrift_managed |-> m] : m \in BOOLEAN}
    \cup {[filter |-> XmlBws, netdrift_managed |-> m] : m \in BOOLEAN}
FullUpdateBodies ==
    {[config |-> XmlBad], [id |-> 2]}
    \cup {[netdrift_managed |-> m] : m \in BOOLEAN}
    \cup {[config |-> XmlBad, netdrift_managed |-> m] : m \in BOOLEAN}

\* PartialIntentConfigUpdate built from a body: a field the body does not
\* carry takes its default, None for all but netdrift_managed, which is
\* declared `netdrift_managed: bool = False`.
PartialIntentConfigUpdate_model_validate(body) ==
    LET defaults == PartialIntentConfigBase(None, None, None)
    IN  [f \in DOMAIN defaults |-> IF f \in DOMAIN body THEN body[f] ELSE defaults[f]]

\* FullIntentConfigUpdate built from a body, with the same defaults.
FullIntentConfigUpdate_model_validate(body) ==
    LET defaults == FullIntentConfigUpdate(0, None, FALSE, None)
    IN  [f \in DOMAIN defaults |-> IF f \in DOMAIN body THEN body[f] ELSE defaults[f]]

\* The body leaves netdrift_managed unspecified.
Unspecified(body) == "netdrift_managed" \notin DOMAIN body

\* C37: the netdrift_managed lock error answers an update only when the
\* request asks for a netdrift_managed other than the stored one, and an
\* update whose body leaves netdrift_managed unspecified is never answered
\* with it, whatever the stored value.
C37_LockOnlyOnExplicitChange ==
    [][/\ PartialUpdateAnswered
          => LET last == partial_resp'.last
             IN  /\ last.result = "IntentConfigAPILockError"
                    => last.obj_in.netdrift_managed
                          # partial_intent[last.id].netdrift_managed
                 /\ \A body \in PartialUpdateBodies :
                       (Unspecified(body)
                        /\ PartialIntentConfigUpdate_model_validate(body) = last.obj_in)
                       => last.result # "IntentConfigAPILockError"
       /\ FullUpdateAnswered
          => LET req == full_reqs'[Len(full_reqs')]
                 obj_in == FullIntentConfigUpdate(req.obj_id, req.hostname,
                                                  req.netdrift_managed, req.config)
             IN  /\ req.result = "IntentConfigAPILockError"
                    => req.netdrift_managed # full_intent[req.id].netdrift_managed
                 /\ \A body \in FullUpdateBodies :
                       (Unspecified(body)
                        /\ FullIntentConfigUpdate_model_validate(body) = obj_in)
                       => req.result # "IntentConfigAPILockError"]_vars

====
